---- MODULE Spec2Model ----
(***************************************************************************)
(* Model of the csv-reader analysis service (src/services/geminiService.ts) *)
(* getColumnType and getAnalysis over an in-memory ParsedCSV table.         *)
(*                                                                          *)
(* Cells are JavaScript values: numbers, strings, undefined and null.       *)
(* A number cell holds its value in hundredths (num = 150 is 1.5); a string *)
(* cell holds its characters as a sequence of one-character strings.        *)
(***************************************************************************)
EXTENDS Integers, Sequences, FiniteSets, TLC

VARIABLES
    csvData,       \* the ParsedCSV handed to getAnalysis: fileName, headers, data
    lenientDate,   \* whether the engine's implementation-defined Date.parse fallback accepts a digit string
    analysis,      \* the AnalysisResult of the latest getAnalysis call, or NoResult
    firstAnalysis, \* the AnalysisResult of the first getAnalysis call on this table, or NoResult
    columnAnalyses,\* getAnalysis's columnAnalyses array as of its latest call
    calls,         \* number of getAnalysis calls made on this table
    plain          \* TRUE while every column of the table was drawn from CorePatterns

\* App (the dashboard view and its upload)
VARIABLES
    view,            \* App.view: "landing", "dashboard" or "matchups"
    datasets,        \* App.datasets: the ParsedCSV tables, in file order
    analysisResults, \* App.analysisResults: fileName -> AnalysisResult
    isLoading,       \* App.isLoading
    error,           \* App.error: a message, or NoError for null
    reads,           \* the parseCSV promises of the latest handleFiles call, in file order
    awaiting,        \* TRUE while handleFiles is suspended at await Promise.all
    selectedFile,    \* Dashboard.selectedFile ("" while the Dashboard is not mounted)
    sureWinThreshold,\* Dashboard.sureWinThreshold, in hundredths
    drawThreshold    \* Dashboard.drawThreshold, in hundredths

analysisVars == <<csvData, analysis, firstAnalysis, columnAnalyses, calls, plain>>

appVars == <<view, datasets, analysisResults, isLoading, error, reads, awaiting,
             selectedFile, sureWinThreshold, drawThreshold>>

\* Bet criteria applied to rows (rowMatchesSetting and the slips)
VARIABLES
    criteria,        \* the BetCriteriaSetting list handed to a slip
    candidates,      \* the filtered rows handed to a slip
    matches,         \* rowMatchesSetting of every candidate against every criterion, once evaluated
    slip             \* the BetSlipGroup list built from criteria and candidates, once built

slipVars == <<criteria, candidates, matches, slip>>

\* TeamMatchupPage (the matchup view and its upload)
VARIABLES
    rows,            \* TeamMatchupPage.rows: the MatchupRow list
    fileSummary,     \* TeamMatchupPage.fileSummary, NoSummary for ''
    matchupError,    \* TeamMatchupPage.error, NoMatchupError for null
    isParsing,       \* TeamMatchupPage.isParsing
    probFilter,      \* TeamMatchupPage.probFilter, in hundredths
    selectedPrediction, \* TeamMatchupPage.selectedPrediction
    csvReads,        \* the files (by name) of the handleCSVUpload calls suspended at await parseCSV, oldest first
    csvInput,        \* the file (by name) held by the CSV file input: event.target.files[0] of the latest upload, "" before any
    resultsPage      \* TeamMatchupPage.resultsPage

matchupVars == <<rows, fileSummary, matchupError, isParsing, probFilter, selectedPrediction, csvReads,
                 csvInput, resultsPage>>

vars == <<analysisVars, lenientDate, appVars, slipVars, matchupVars>>

-----------------------------------------------------------------------------
(* Bounds of the model *)

MaxRows == 21
MaxCols == 2
MaxWideCols == 5
MaxCalls == 2
MaxFiles == 2
MaxReads == 2
MaxCriteria == 2
BigFileRows == 72
MaxTextLen == 4

(* Program constants *)

SampleSize == 10
SmallNumberLen == 6
BarMaxUnique == 20
PieMaxUnique == 8
LineMinUnique == 5
MaxCharts == 4

-----------------------------------------------------------------------------
(* JavaScript values *)

NumCell(n) == [ty |-> "number", num |-> n, str |-> <<>>]
StrCell(s) == [ty |-> "string", num |-> 0, str |-> s]
Undefined == [ty |-> "undefined", num |-> 0, str |-> <<>>]
Null == [ty |-> "null", num |-> 0, str |-> <<>>]
EmptyStr == StrCell(<<>>)

Digits == <<"0", "1", "2", "3", "4", "5", "6", "7", "8", "9">>

IsDigit(c) == \E i \in 1..Len(Digits) : Digits[i] = c

DigitVal(c) == (CHOOSE i \in 1..Len(Digits) : Digits[i] = c) - 1

RECURSIVE IntDigits(_)
\* number of decimal digits of a non-negative integer
IntDigits(q) == IF q < 10 THEN 1 ELSE 1 + IntDigits(q \div 10)

\* String(v).length for a non-negative number cell (value = n / 100)
NumberStringLength(n) ==
    LET frac == n % 100
        fracLen == IF frac = 0 THEN 0 ELSE IF frac % 10 = 0 THEN 2 ELSE 3
    IN IntDigits(n \div 100) + fracLen

\* the white space and line terminators that trim removes
IsSpace(c) == c \in {" ", "\t", "\n", "\r"}

RECURSIVE TrimLeft(_)
TrimLeft(s) == IF s # <<>> /\ IsSpace(Head(s)) THEN TrimLeft(Tail(s)) ELSE s

RECURSIVE TrimRight(_)
TrimRight(s) ==
    IF s # <<>> /\ IsSpace(s[Len(s)]) THEN TrimRight(SubSeq(s, 1, Len(s) - 1)) ELSE s

\* String.prototype.trim
Trim(s) == TrimRight(TrimLeft(s))

AllDigits(s) == s # <<>> /\ \A i \in 1..Len(s) : IsDigit(s[i])

\* isNaN(Number(s)) for a string: the trimmed text is empty (0), a run of
\* digits, or digits '.' digits; anything else converts to NaN.
StringIsNaN(s) ==
    LET t == Trim(s)
        dots == {i \in 1..Len(t) : t[i] = "."}
    IN ~ \/ t = <<>>
         \/ AllDigits(t)
         \/ /\ Cardinality(dots) = 1
            /\ LET d == CHOOSE i \in dots : TRUE
               IN /\ AllDigits(SubSeq(t, 1, d - 1)) \/ AllDigits(SubSeq(t, d + 1, Len(t)))
                  /\ \A i \in 1..Len(t) : i # d => IsDigit(t[i])

RECURSIVE DigitsValue(_)
\* the value of a run of decimal digits (0 for the empty run)
DigitsValue(s) == IF s = <<>> THEN 0 ELSE 10 * DigitsValue(SubSeq(s, 1, Len(s) - 1)) + DigitVal(s[Len(s)])

\* Number(s), in hundredths, for a string that StringIsNaN does not reject
\* (fraction digits beyond the second are dropped)
StringToNumber(s) ==
    LET t == Trim(s)
        dots == {i \in 1..Len(t) : t[i] = "."}
        d == IF dots = {} THEN Len(t) + 1 ELSE CHOOSE i \in dots : TRUE
        frac == SubSeq(t, d + 1, Len(t))
        frac2 == IF Len(frac) = 0 THEN <<"0", "0">>
                 ELSE IF Len(frac) = 1 THEN frac \o <<"0">>
                 ELSE SubSeq(frac, 1, 2)
    IN 100 * DigitsValue(SubSeq(t, 1, d - 1)) + DigitsValue(frac2)

TwoDigits(s, i) == 10 * DigitVal(s[i]) + DigitVal(s[i + 1])

IsLeapYear(y) == (y % 4 = 0 /\ y % 100 # 0) \/ y % 400 = 0

DaysInMonth(y, m) ==
    IF m = 2 THEN (IF IsLeapYear(y) THEN 29 ELSE 28)
    ELSE IF m \in {4, 6, 9, 11} THEN 30 ELSE 31

\* Date.parse of the ECMAScript date-only form YYYY-MM-DD
IsISODate(s) ==
    /\ Len(s) = 10
    /\ s[5] = "-" /\ s[8] = "-"
    /\ \A i \in {1, 2, 3, 4, 6, 7, 9, 10} : IsDigit(s[i])
    /\ LET y == 100 * TwoDigits(s, 1) + TwoDigits(s, 3)
           m == TwoDigits(s, 6)
           d == TwoDigits(s, 9)
       IN m \in 1..12 /\ d \in 1..DaysInMonth(y, m)

\* !isNaN(new Date(v).getTime()): a number is a time value (every number a
\* cell of the model holds lies within the TimeClip range of 8.64e15 ms), a
\* string goes through Date.parse, whose fallback for
\* non-ISO text is implementation-defined (lenient engines read a digit
\* string as a month or year), null is time 0 and undefined is NaN.
DateIsValid(v, lenient) ==
    CASE v.ty = "number" -> TRUE
      [] v.ty = "string" -> IsISODate(v.str) \/ (lenient /\ AllDigits(Trim(v.str)))
      [] v.ty = "null" -> TRUE
      [] OTHER -> FALSE

-----------------------------------------------------------------------------
(* Rows: Record<string, any>; a key that is absent reads as undefined *)

Get(row, column) == IF column \in DOMAIN row THEN row[column] ELSE Undefined

Range(s) == {s[i] : i \in 1..Len(s)}

-----------------------------------------------------------------------------
(* getColumnType: column type from a sample of the data *)

\* Sample with the filter applied before the slice: the first 10 non-empty values
SampleFirstNonEmpty(data, column) ==
    LET values == [i \in 1..Len(data) |-> Get(data[i], column)]
        NonEmpty(v) == v # Null /\ v # Undefined /\ v # EmptyStr
        kept == SelectSeq(values, NonEmpty)
    IN SubSeq(kept, 1, IF Len(kept) < SampleSize THEN Len(kept) ELSE SampleSize)

\* data.slice(0, 10).map(row => row[column]).filter(v => v !== null && v !== undefined && v !== '')
Sample(data, column) ==
    LET first == SubSeq(data, 1, IF Len(data) < SampleSize THEN Len(data) ELSE SampleSize)
        values == [i \in 1..Len(first) |-> Get(first[i], column)]
        NonEmpty(v) == v # Null /\ v # Undefined /\ v # EmptyStr
    IN SelectSeq(values, NonEmpty)

\* the callback of sample.every for isDateLike
IsDateLikeValue(v, lenient) ==
    IF v.ty = "number" /\ NumberStringLength(v.num) < SmallNumberLen THEN FALSE
    ELSE DateIsValid(v, lenient)

\* the callback of sample.every for isMostlyNumeric
IsNumericValue(v) ==
    \/ v.ty = "number"
    \/ v.ty = "string" /\ (Trim(v.str) = <<>> \/ ~StringIsNaN(v.str))

\* the variation test as "at least one value"
HasVariationAtLeastOne(sample) == Cardinality(Range(sample)) >= 1

\* the variation test left out
HasVariationAlways(sample) == TRUE

\* new Set(sample).size > 1
HasVariation(sample) == Cardinality(Range(sample)) > 1

\* getColumnType with the numeric test made before the date test
getColumnTypeNumericFirst(data, column, lenient) ==
    LET sample == Sample(data, column)
        isDateLike == \A i \in 1..Len(sample) : IsDateLikeValue(sample[i], lenient)
        isMostlyNumeric == \A i \in 1..Len(sample) : IsNumericValue(sample[i])
    IN IF Len(sample) = 0 THEN "categorical"
       ELSE IF isMostlyNumeric /\ HasVariation(sample) THEN "numeric"
       ELSE IF isDateLike /\ HasVariation(sample) THEN "date"
       ELSE "categorical"

\* getColumnType with 'numeric' as the default of an empty sample
getColumnTypeEmptyNumeric(data, column, lenient) ==
    LET sample == Sample(data, column)
        isDateLike == \A i \in 1..Len(sample) : IsDateLikeValue(sample[i], lenient)
        isMostlyNumeric == \A i \in 1..Len(sample) : IsNumericValue(sample[i])
    IN IF Len(sample) = 0 THEN "numeric"
       ELSE IF isDateLike /\ HasVariation(sample) THEN "date"
       ELSE IF isMostlyNumeric /\ HasVariation(sample) THEN "numeric"
       ELSE "categorical"

getColumnType(data, column, lenient) ==
    LET sample == Sample(data, column)
        isDateLike == \A i \in 1..Len(sample) : IsDateLikeValue(sample[i], lenient)
        isMostlyNumeric == \A i \in 1..Len(sample) : IsNumericValue(sample[i])
    IN IF Len(sample) = 0 THEN "categorical"
       ELSE IF isDateLike /\ HasVariation(sample) THEN "date"
       ELSE IF isMostlyNumeric /\ HasVariation(sample) THEN "numeric"
       ELSE "categorical"

-----------------------------------------------------------------------------
(* getAnalysis *)

\* new Set(data.map(row => row[header])).size
UniqueCount(data, header) == Cardinality({Get(data[i], header) : i \in 1..Len(data)})

\* headers.map(header => ({name, type, uniqueCount}))
ColumnAnalyses(headers, data, lenient) ==
    [i \in 1..Len(headers) |->
        [name |-> headers[i],
         type |-> getColumnType(data, headers[i], lenient),
         uniqueCount |-> UniqueCount(data, headers[i])]]

OfType(cols, t) == LET Is(c) == c.type = t IN SelectSeq(cols, Is)

RECURSIVE InsertAsc(_, _)
\* insert c behind every element whose uniqueCount is not larger (stable)
InsertAsc(sorted, c) ==
    IF sorted = <<>> THEN <<c>>
    ELSE IF Head(sorted).uniqueCount <= c.uniqueCount
         THEN <<Head(sorted)>> \o InsertAsc(Tail(sorted), c)
         ELSE <<c>> \o sorted

RECURSIVE SortAsc(_)
\* Array.prototype.sort((a, b) => a.uniqueCount - b.uniqueCount), a stable sort
SortAsc(cols) ==
    IF cols = <<>> THEN <<>>
    ELSE InsertAsc(SortAsc(SubSeq(cols, 1, Len(cols) - 1)), cols[Len(cols)])

RECURSIVE InsertDesc(_, _)
InsertDesc(sorted, c) ==
    IF sorted = <<>> THEN <<c>>
    ELSE IF Head(sorted).uniqueCount >= c.uniqueCount
         THEN <<Head(sorted)>> \o InsertDesc(Tail(sorted), c)
         ELSE <<c>> \o sorted

RECURSIVE SortDesc(_)
\* Array.prototype.sort((a, b) => b.uniqueCount - a.uniqueCount), a stable sort
SortDesc(cols) ==
    IF cols = <<>> THEN <<>>
    ELSE InsertDesc(SortDesc(SubSeq(cols, 1, Len(cols) - 1)), cols[Len(cols)])

Insight(kind, column, a, b, c) == [kind |-> kind, column |-> column, a |-> a, b |-> b, c |-> c]

Chart(type, column, x, y) == [type |-> type, column |-> column, x_column |-> x, y_column |-> y]

RECURSIVE SumNum(_)
SumNum(values) == IF values = <<>> THEN 0 ELSE Head(values).num + SumNum(Tail(values))

\* (values.reduce((a, b) => a + b, 0) / values.length).toFixed(2), in hundredths
AverageFixed2(values) == (2 * SumNum(values) + Len(values)) \div (2 * Len(values))

\* the insight about the first numeric column, lines 66-73
MeanInsight(data, numericCols) ==
    IF Len(numericCols) > 0
    THEN LET firstNumeric == numericCols[1].name
             all == [i \in 1..Len(data) |-> Get(data[i], firstNumeric)]
             IsNumber(v) == v.ty = "number"
             values == SelectSeq(all, IsNumber)
         IN IF Len(values) > 0
            THEN <<Insight("average", firstNumeric, AverageFixed2(values), 0, 0)>>
            ELSE <<>>
    ELSE <<>>

\* categoricalCols after line 75, which sorts the array in place
CategoricalSorted(categoricalCols) ==
    IF Len(categoricalCols) > 0 THEN SortAsc(categoricalCols) ELSE categoricalCols

\* [0] of an array: the sequence of its first element, empty when undefined
First(s) == IF s = <<>> THEN <<>> ELSE <<s[1]>>

\* BarChartCandidate without the upper limit on uniqueCount
BarChartCandidateNoCap(categoricalCols) ==
    LET Eligible(c) == c.uniqueCount > 1
    IN First(SortAsc(SelectSeq(categoricalCols, Eligible)))

\* lines 83-85
BarChartCandidate(categoricalCols) ==
    LET Eligible(c) == c.uniqueCount > 1 /\ c.uniqueCount <= BarMaxUnique
    IN First(SortAsc(SelectSeq(categoricalCols, Eligible)))

\* PieChartCandidate without the filter that leaves the bar's column out
PieChartCandidateUnfiltered(categoricalCols, bar) ==
    LET Eligible(c) == c.uniqueCount > 1 /\ c.uniqueCount <= PieMaxUnique
    IN First(SortAsc(SelectSeq(categoricalCols, Eligible)))

\* PieChartCandidate with the bar chart's limit on uniqueCount
PieChartCandidateBarCap(categoricalCols, bar) ==
    LET NotBar(c) == bar = <<>> \/ c.name # bar[1].name
        Eligible(c) == c.uniqueCount > 1 /\ c.uniqueCount <= BarMaxUnique
    IN First(SortAsc(SelectSeq(SelectSeq(categoricalCols, NotBar), Eligible)))

\* lines 97-100; bar is barChartCandidate, empty when undefined
PieChartCandidate(categoricalCols, bar) ==
    LET NotBar(c) == bar = <<>> \/ c.name # bar[1].name
        Eligible(c) == c.uniqueCount > 1 /\ c.uniqueCount <= PieMaxUnique
    IN First(SortAsc(SelectSeq(SelectSeq(categoricalCols, NotBar), Eligible)))

\* LineChart with uniqueCount >= 5 for the value column
LineChartAtLeast(dateCols, numericCols) ==
    IF Len(dateCols) > 0 /\ Len(numericCols) > 0
    THEN LET Varied(c) == c.uniqueCount >= LineMinUnique
             found == SelectSeq(numericCols, Varied)
         IN IF found # <<>>
            THEN <<Chart("line", "", dateCols[1].name, found[1].name)>>
            ELSE <<>>
    ELSE <<>>

\* lines 112-124
LineChart(dateCols, numericCols) ==
    IF Len(dateCols) > 0 /\ Len(numericCols) > 0
    THEN LET Varied(c) == c.uniqueCount > LineMinUnique
             found == SelectSeq(numericCols, Varied)
         IN IF found # <<>>
            THEN <<Chart("line", "", dateCols[1].name, found[1].name)>>
            ELSE <<>>
    ELSE <<>>

\* ScatterChart with the numeric columns sorted by ascending uniqueCount
ScatterChartAscending(numericCols) ==
    IF Len(numericCols) >= 2
    THEN LET sortedNumeric == SortAsc(numericCols)
         IN IF sortedNumeric[1].uniqueCount > 1 /\ sortedNumeric[2].uniqueCount > 1
            THEN <<Chart("scatter", "", sortedNumeric[1].name, sortedNumeric[2].name)>>
            ELSE <<>>
    ELSE <<>>

\* lines 127-140
ScatterChart(numericCols) ==
    IF Len(numericCols) >= 2
    THEN LET sortedNumeric == SortDesc(numericCols)
         IN IF sortedNumeric[1].uniqueCount > 1 /\ sortedNumeric[2].uniqueCount > 1
            THEN <<Chart("scatter", "", sortedNumeric[1].name, sortedNumeric[2].name)>>
            ELSE <<>>
    ELSE <<>>

\* the suggestions pushed with the line chart first
ChartSuggestionsLineFirst(bar, pie, line, scatter) ==
    LET charts == line \o bar \o pie \o scatter
    IN SubSeq(charts, 1, IF Len(charts) < MaxCharts THEN Len(charts) ELSE MaxCharts)

\* the pushes of lines 87-140 in their order, and the slice(0, 4) of line 145
ChartSuggestions(bar, pie, line, scatter) ==
    LET charts == bar \o pie \o line \o scatter
    IN SubSeq(charts, 1, IF Len(charts) < MaxCharts THEN Len(charts) ELSE MaxCharts)

\* lines 58-146: insights and chart suggestions from the column analyses
Report(csv, cols) ==
      LET numericCols == OfType(cols, "numeric")
          categoricalCols0 == OfType(cols, "categorical")
          dateCols == OfType(cols, "date")
          categoricalCols == CategoricalSorted(categoricalCols0)
          countInsight == Insight("counts", "", Len(numericCols), Len(categoricalCols0), Len(dateCols))
          categoryInsight ==
              IF Len(categoricalCols0) > 0
              THEN <<Insight("categories", categoricalCols[1].name, categoricalCols[1].uniqueCount, 0, 0)>>
              ELSE <<>>
          bar == BarChartCandidate(categoricalCols)
          pie == PieChartCandidate(categoricalCols, bar)
          charts ==
              ChartSuggestions(
                  IF bar # <<>> THEN <<Chart("bar", bar[1].name, "", "")>> ELSE <<>>,
                  IF pie # <<>> THEN <<Chart("pie", pie[1].name, "", "")>> ELSE <<>>,
                  LineChart(dateCols, numericCols),
                  ScatterChart(numericCols))
      IN [summary |-> <<"contains", csv.fileName, Len(csv.data), Len(csv.headers)>>,
          insights |-> <<countInsight>> \o MeanInsight(csv.data, numericCols) \o categoryInsight,
          chartSuggestions |-> charts]

\* getAnalysis without the short-circuit for a table of zero rows
getAnalysisNoEmptyCheck(csv, lenient) ==
    Report(csv, ColumnAnalyses(csv.headers, csv.data, lenient))

getAnalysis(csv, lenient) ==
    IF Len(csv.data) = 0
    THEN [summary |-> <<"empty", csv.fileName, 0, 0>>,
          insights |-> <<>>,
          chartSuggestions |-> <<>>]
    ELSE Report(csv, ColumnAnalyses(csv.headers, csv.data, lenient))

-----------------------------------------------------------------------------
(* The tables the model analyses: a column is a pattern of cell values *)

Letters == <<"a", "b", "c", "d", "e", "f">>

\* letters-only text, which no Date.parse or Number accepts
TextValue(j) == StrCell(<<Letters[((j \div Len(Letters)) % Len(Letters)) + 1], Letters[(j % Len(Letters)) + 1]>>)

\* 1, 2, 3, ...: numbers whose decimal string is short
SmallNumber(j) == NumCell(100 * (j + 1))

\* 1000.01, 1000.02, ...: numbers whose decimal string has 6 characters or more
LongNumber(j) == NumCell(100001 + j)

\* "2024-01-01", "2024-01-02", ...
IsoDate(j) ==
    LET d == (j % 28) + 1
    IN StrCell(<<"2", "0", "2", "4", "-", "0", "1", "-", Digits[(d \div 10) + 1], Digits[(d % 10) + 1]>>)

\* "1", "2", ...: strings that Number converts
DigitString(j) == StrCell(<<Digits[(j % 9) + 2]>>)

PatternValue(kind, j) ==
    CASE kind = "text" -> TextValue(j)
      [] kind = "number" -> SmallNumber(j)
      [] kind = "longnumber" -> LongNumber(j)
      [] kind = "isodate" -> IsoDate(j)
      [] kind = "digits" -> DigitString(j)
      [] kind = "mixed" -> IF j % 2 = 0 THEN SmallNumber(j) ELSE TextValue(j)
      [] kind = "blanknumber" -> IF j = 0 THEN StrCell(<<" ">>) ELSE SmallNumber(j)

Pattern(kind, k, lead, gap) == [kind |-> kind, k |-> k, lead |-> lead, gap |-> gap]

\* columns without gaps, with unique counts around the thresholds of getAnalysis
CorePatterns ==
    {Pattern("text", 2, 0, "empty"), Pattern("isodate", 2, 0, "empty")}
    \cup {Pattern("number", k, 0, "empty") : k \in {2, LineMinUnique + 1}}

Patterns ==
    CorePatterns
    \cup {Pattern("text", k, 0, "empty") :
            k \in {1, PieMaxUnique, PieMaxUnique + 1, BarMaxUnique, BarMaxUnique + 1}}
    \cup {Pattern("number", k, 0, "empty") : k \in {1, LineMinUnique}}
    \cup {Pattern(kind, 2, 0, "empty") : kind \in {"longnumber", "digits", "mixed"}}
    \cup {Pattern("isodate", 1, 0, "empty"), Pattern("blanknumber", 3, 0, "empty")}
    \cup {Pattern("text", 2, SampleSize, gap) : gap \in {"missing", "null"}}
    \cup {Pattern("number", 2, lead, "empty") : lead \in {SampleSize - 1, SampleSize}}

\* the cell of row i in a column of pattern p; rows 1..p.lead hold the gap
PatternCell(p, i) ==
    IF i <= p.lead
    THEN (IF p.gap = "null" THEN Null ELSE EmptyStr)
    ELSE PatternValue(p.kind, (i - p.lead - 1) % p.k)

ColNames == <<"A", "B", "C", "D", "E", "F", "G">>

NoRow == [h \in {} |-> Undefined]

RowCounts == {0, 1, MaxRows}

NoResult == [summary |-> <<>>, insights |-> <<>>, chartSuggestions |-> <<>>]

-----------------------------------------------------------------------------
(* CSV text and parseCSV (src/services/csvParser.ts) *)

\* String.prototype.split on a one-character separator: the pieces between
\* one separator (or the start) and the next (or the end)
Split(s, sep) ==
    LET hits == {i \in 1..Len(s) : s[i] = sep}
        Before(i) == Cardinality({j \in hits : j < i})
        cut == [k \in 0..(Cardinality(hits) + 1) |->
                   IF k = 0 THEN 0
                   ELSE IF k > Cardinality(hits) THEN Len(s) + 1
                   ELSE CHOOSE i \in hits : Before(i) = k - 1]
    IN [k \in 1..(Cardinality(hits) + 1) |-> SubSeq(s, cut[k - 1] + 1, cut[k] - 1)]

\* split(/\r\n|\n/): a line ends at "\n", and a "\r" right before it is part of the terminator
SplitLines(s) ==
    LET parts == Split(s, "\n")
    IN [k \in 1..Len(parts) |->
          IF k < Len(parts) /\ parts[k] # <<>> /\ parts[k][Len(parts[k])] = "\r"
          THEN SubSeq(parts[k], 1, Len(parts[k]) - 1)
          ELSE parts[k]]

\* values[index]?.trim() || '', stored as a number when Number(value) is not NaN and value is not ''
ParseCell(values, index) ==
    LET value == IF index <= Len(values) THEN Trim(values[index]) ELSE <<>>
    IN IF ~StringIsNaN(value) /\ value # <<>> THEN NumCell(StringToNumber(value)) ELSE StrCell(value)

\* headers.forEach((header, index) => row[header] = ...): the last index of a repeated header wins
ParseRow(headers, line) ==
    LET values == Split(line, ",")
    IN [h \in Range(headers) |->
          ParseCell(values, CHOOSE i \in 1..Len(headers) :
                                /\ headers[i] = h
                                /\ \A j \in 1..Len(headers) : headers[j] = h => j <= i)]

NoTable == [fileName |-> "", headers |-> <<>>, data |-> <<>>]

\* the states of the promise parseCSV returns
Pending(file) == [file |-> file, state |-> "pending", value |-> NoTable, reason |-> <<>>]
Resolved(file, table) == [file |-> file, state |-> "resolved", value |-> table, reason |-> <<>>]
Rejected(file, message) == [file |-> file, state |-> "rejected", value |-> NoTable, reason |-> message]

\* parseCSV splitting the text as read, without trim
parseCSVUntrimmed(file) ==
    IF ~file.readable THEN Rejected(file, <<"Error reading file", file.name>>)
    ELSE IF file.text = <<>>
    THEN Rejected(file, <<"Failed to parse", file.name, "File is empty.">>)
    ELSE LET lines == SplitLines(file.text)
         IN IF Len(lines) < 2
            THEN Rejected(file, <<"Failed to parse", file.name,
                                  "CSV must have a header and at least one row of data.">>)
            ELSE LET raw == Split(lines[1], ",")
                     headers == [i \in 1..Len(raw) |-> Trim(raw[i])]
                 IN Resolved(file, [fileName |-> file.name,
                                    headers |-> headers,
                                    data |-> [r \in 1..(Len(lines) - 1) |-> ParseRow(headers, lines[r + 1])]])

\* the settled promise of parseCSV(file): reader.onerror, or reader.onload's try/catch
parseCSV(file) ==
    IF ~file.readable THEN Rejected(file, <<"Error reading file", file.name>>)
    ELSE IF file.text = <<>>
    THEN Rejected(file, <<"Failed to parse", file.name, "File is empty.">>)
    ELSE LET lines == SplitLines(Trim(file.text))
         IN IF Len(lines) < 2
            THEN Rejected(file, <<"Failed to parse", file.name,
                                  "CSV must have a header and at least one row of data.">>)
            ELSE LET raw == Split(lines[1], ",")
                     headers == [i \in 1..Len(raw) |-> Trim(raw[i])]
                 IN Resolved(file, [fileName |-> file.name,
                                    headers |-> headers,
                                    data |-> [r \in 1..(Len(lines) - 1) |-> ParseRow(headers, lines[r + 1])]])

RECURSIVE JoinWith(_, _)
\* the text of parts written one after the other with sep in between
JoinWith(parts, sep) ==
    IF parts = <<>> THEN <<>>
    ELSE IF Len(parts) = 1 THEN parts[1]
    ELSE parts[1] \o sep \o JoinWith(Tail(parts), sep)

CsvLine(fields) == JoinWith(fields, <<",">>)

File(name, text) == [name |-> name, readable |-> TRUE, text |-> text]

-----------------------------------------------------------------------------
(* The files offered to the dashboard upload *)

Prob_HomeWin == <<"P", "r", "o", "b", "_", "H", "o", "m", "e", "W", "i", "n">>
Prob_Draw == <<"P", "r", "o", "b", "_", "D", "r", "a", "w">>
Prob_AwayWin == <<"P", "r", "o", "b", "_", "A", "w", "a", "y", "W", "i", "n">>
Team == <<"T", "e", "a", "m">>
Opponent == <<"O", "p", "p", "o", "n", "e", "n", "t">>

\* five rows: a home sure win, a draw, an away sure win that is also a draw,
\* neither, and a row with a blank and a textual probability
ProbsFile ==
    File("probs.csv",
         JoinWith(<<CsvLine(<<Prob_HomeWin, Prob_Draw, Prob_AwayWin>>),
                    CsvLine(<<<<"0", ".", "8", "5">>, <<"0", ".", "1">>, <<"0", ".", "0", "5">>>>),
                    CsvLine(<<<<"0", ".", "3">>, <<"0", ".", "5", "5">>, <<"0", ".", "1", "5">>>>),
                    CsvLine(<<<<"0", ".", "1">>, <<"0", ".", "5">>, <<"0", ".", "9">>>>),
                    CsvLine(<<<<"0", ".", "4">>, <<"0", ".", "3">>, <<"0", ".", "3">>>>),
                    CsvLine(<<<<>>, <<"n", "/", "a">>, <<"0", ".", "8">>>>)>>, <<"\n">>) \o <<"\n">>)

\* two of the three probability headers, padded with blanks, CRLF line ends
PartialFile ==
    File("partial.csv",
         JoinWith(<<CsvLine(<<<<" ">> \o Prob_HomeWin \o <<" ">>, Prob_Draw, Team>>),
                    CsvLine(<<<<"0", ".", "9">>, <<"0", ".", "9">>, <<"X">>>>),
                    CsvLine(<<<<"0", ".", "1">>, <<"0", ".", "1">>, <<"Y">>>>)>>, <<"\r", "\n">>))

\* a header line and no data line
HeaderOnlyFile == File("headeronly.csv", CsvLine(<<Team, Opponent>>) \o <<"\n">>)

EmptyFile == File("empty.csv", <<>>)

\* a file whose read fails (reader.onerror)
UnreadableFile == [name |-> "unreadable.csv", readable |-> FALSE, text |-> <<>>]

\* another file named probs.csv (dropped from another folder), with another table
OtherProbsFile ==
    File("probs.csv", JoinWith(<<CsvLine(<<Team, Opponent>>), CsvLine(<<<<"A">>, <<"B">>>>)>>, <<"\n">>))

UploadFiles == {ProbsFile, PartialFile, HeaderOnlyFile, EmptyFile, UnreadableFile, OtherProbsFile}

\* the FileLists a user can select: one to MaxFiles files, in any order
FileLists == UNION {[1..n -> UploadFiles] : n \in 1..MaxFiles}

-----------------------------------------------------------------------------
(* App (src/unnamed/part_005) and Dashboard (src/components/Dashboard.tsx) *)

NoError == <<>>

NoResults == <<>>

DefaultSureWinThreshold == 80
DefaultDrawThreshold == 50

\* positions of the range sliders (0 to 1 in steps of 0.01), in hundredths
Thresholds == {0, 50, 80, 100}

REQUIRED_PROB_HEADERS == <<Prob_HomeWin, Prob_Draw, Prob_AwayWin>>

AppInit ==
    /\ view = "landing"
    /\ datasets = <<>>
    /\ analysisResults = NoResults
    /\ isLoading = FALSE
    /\ error = NoError
    /\ reads = <<>>
    /\ awaiting = FALSE
    /\ selectedFile = ""
    /\ sureWinThreshold = DefaultSureWinThreshold
    /\ drawThreshold = DefaultDrawThreshold

\* App renders <Dashboard> only in the dashboard view, when not loading, without error, with datasets
DashboardMounted(v, loading, err, ds) == v = "dashboard" /\ ~loading /\ err = NoError /\ ds # <<>>

\* App renders <FileUpload>
FileUploadShown == view = "dashboard" /\ ~isLoading /\ error = NoError /\ datasets = <<>>

\* Dashboard's effect on [datasets, selectedFile]
SyncSelectedFile(selected, ds) ==
    IF (~(\E i \in 1..Len(ds) : ds[i].fileName = selected) \/ selected = "") /\ Len(ds) > 0
    THEN ds[1].fileName
    ELSE selected

\* the Dashboard's state after a step of App: kept while it stays mounted, initial
\* (and synchronised by its effect) when it mounts, gone when it unmounts
DashboardFollows ==
    LET was == DashboardMounted(view, isLoading, error, datasets)
        now == DashboardMounted(view', isLoading', error', datasets')
    IN /\ selectedFile' = IF now THEN SyncSelectedFile(IF was THEN selectedFile ELSE "", datasets') ELSE ""
       /\ sureWinThreshold' = IF now /\ was THEN sureWinThreshold ELSE DefaultSureWinThreshold
       /\ drawThreshold' = IF now /\ was THEN drawThreshold ELSE DefaultDrawThreshold

RECURSIVE AnalyseAll(_, _)
\* for (const data of parsedData) results[data.fileName] = getAnalysis(data): a later file of the same name overwrites
AnalyseAll(parsedData, lenient) ==
    IF parsedData = <<>> THEN NoResults
    ELSE LET data == parsedData[Len(parsedData)]
         IN (data.fileName :> getAnalysis(data, lenient))
                @@ AnalyseAll(SubSeq(parsedData, 1, Len(parsedData) - 1), lenient)

handleStartAnalysis ==
    /\ view = "landing"
    /\ view' = "dashboard"
    /\ UNCHANGED <<datasets, analysisResults, isLoading, error, reads, awaiting, lenientDate, analysisVars, slipVars, matchupVars>>
    /\ DashboardFollows

handleOpenTeamVisualizer ==
    /\ view = "landing"
    /\ view' = "matchups"
    /\ UNCHANGED <<datasets, analysisResults, isLoading, error, reads, awaiting, lenientDate, analysisVars, slipVars, matchupVars>>
    /\ DashboardFollows

\* the Header's navigation buttons
handleNavigate(targetView) ==
    /\ view # "landing"
    /\ view' = targetView
    /\ UNCHANGED <<datasets, analysisResults, isLoading, error, reads, awaiting, lenientDate, analysisVars, slipVars, matchupVars>>
    /\ DashboardFollows

\* the Header's 'Analyze New Files' (shown when hasData) and the error panel's 'Try Again'
handleReset ==
    /\ view = "dashboard"
    /\ datasets # <<>> \/ (~isLoading /\ error # NoError)
    /\ datasets' = <<>>
    /\ analysisResults' = NoResults
    /\ error' = NoError
    /\ UNCHANGED <<view, isLoading, reads, awaiting, lenientDate, analysisVars, slipVars, matchupVars>>
    /\ DashboardFollows

handleGoToLanding ==
    /\ view # "landing"
    /\ datasets' = <<>>
    /\ analysisResults' = NoResults
    /\ error' = NoError
    /\ view' = "landing"
    /\ UNCHANGED <<isLoading, reads, awaiting, lenientDate, analysisVars, slipVars, matchupVars>>
    /\ DashboardFollows

\* handleFiles up to its await: every file's read is started
handleFiles(files) ==
    /\ FileUploadShown
    /\ Len(files) # 0
    /\ isLoading' = TRUE
    /\ error' = NoError
    /\ datasets' = <<>>
    /\ analysisResults' = NoResults
    /\ reads' = [i \in 1..Len(files) |-> Pending(files[i])]
    /\ awaiting' = TRUE
    /\ UNCHANGED <<view, lenientDate, analysisVars, slipVars, matchupVars>>
    /\ DashboardFollows

\* the read of file i ends and its promise settles; Promise.all rejects on the
\* first rejection and fulfils when every promise is fulfilled, and handleFiles
\* then runs to its end (try, catch, finally)
FileRead(i) ==
    /\ i \in 1..Len(reads)
    /\ reads[i].state = "pending"
    /\ reads' = [reads EXCEPT ![i] = parseCSV(@.file)]
    /\ IF awaiting /\ reads'[i].state = "rejected"
       THEN /\ error' = reads'[i].reason
            /\ isLoading' = FALSE
            /\ awaiting' = FALSE
            /\ UNCHANGED <<datasets, analysisResults>>
       ELSE IF awaiting /\ \A j \in 1..Len(reads') : reads'[j].state = "resolved"
       THEN /\ datasets' = [j \in 1..Len(reads') |-> reads'[j].value]
            /\ analysisResults' = AnalyseAll(datasets', lenientDate)
            /\ isLoading' = FALSE
            /\ awaiting' = FALSE
            /\ UNCHANGED error
       ELSE UNCHANGED <<datasets, analysisResults, isLoading, error, awaiting>>
    /\ UNCHANGED <<view, lenientDate, analysisVars, slipVars, matchupVars>>
    /\ DashboardFollows

\* datasets.find(d => d.fileName === selectedFile), as a list of at most one table
selectedData ==
    LET Named(d) == d.fileName = selectedFile
    IN IF selectedFile = "" THEN <<>> ELSE First(SelectSeq(datasets, Named))

\* a probability header takes part in the test
HasSomeRequiredHeader(headers) ==
    \E i \in 1..Len(REQUIRED_PROB_HEADERS) : REQUIRED_PROB_HEADERS[i] \in Range(headers)

\* REQUIRED_PROB_HEADERS.every(header => headers.includes(header))
HasRequiredHeaders(headers) ==
    \A i \in 1..Len(REQUIRED_PROB_HEADERS) : REQUIRED_PROB_HEADERS[i] \in Range(headers)

hasRequiredHeaders == selectedData # <<>> /\ HasRequiredHeaders(selectedData[1].headers)

\* v >= t for a cell v and a number t: v is converted by ToNumber, NaN compares false
GreaterOrEqual(v, t) ==
    CASE v.ty = "number" -> v.num >= t
      [] v.ty = "string" -> ~StringIsNaN(v.str) /\ StringToNumber(v.str) >= t
      [] v.ty = "null" -> 0 >= t
      [] OTHER -> FALSE

\* the sure-win filter with both probabilities required
FilteredSureWinsBoth(data, threshold) ==
    LET Sure(row) == /\ GreaterOrEqual(Get(row, Prob_HomeWin), threshold)
                     /\ GreaterOrEqual(Get(row, Prob_AwayWin), threshold)
    IN SelectSeq(data, Sure)

FilteredSureWins(data, threshold) ==
    LET Sure(row) == \/ GreaterOrEqual(Get(row, Prob_HomeWin), threshold)
                     \/ GreaterOrEqual(Get(row, Prob_AwayWin), threshold)
    IN SelectSeq(data, Sure)

FilteredDraws(data, threshold) ==
    LET Draw(row) == GreaterOrEqual(Get(row, Prob_Draw), threshold)
    IN SelectSeq(data, Draw)

sureWins ==
    IF selectedData = <<>> \/ ~hasRequiredHeaders THEN <<>>
    ELSE FilteredSureWins(selectedData[1].data, sureWinThreshold)

draws ==
    IF selectedData = <<>> \/ ~hasRequiredHeaders THEN <<>>
    ELSE FilteredDraws(selectedData[1].data, drawThreshold)

\* what the Dashboard renders between the stat cards and the insights
FilterPanel == IF hasRequiredHeaders THEN "FilterControls" ELSE "Match Outcome Filters Not Available"

DashboardShown == DashboardMounted(view, isLoading, error, datasets)

\* the file selector's onChange
setSelectedFile(name) ==
    /\ DashboardShown
    /\ \E i \in 1..Len(datasets) : datasets[i].fileName = name
    /\ selectedFile' = SyncSelectedFile(name, datasets)
    /\ UNCHANGED <<view, datasets, analysisResults, isLoading, error, reads, awaiting,
                   sureWinThreshold, drawThreshold, lenientDate, analysisVars, slipVars, matchupVars>>

\* FilterControls' sliders, rendered only when hasRequiredHeaders
setSureWinThreshold(value) ==
    /\ DashboardShown /\ hasRequiredHeaders
    /\ sureWinThreshold' = value
    /\ UNCHANGED <<view, datasets, analysisResults, isLoading, error, reads, awaiting,
                   selectedFile, drawThreshold, lenientDate, analysisVars, slipVars, matchupVars>>

setDrawThreshold(value) ==
    /\ DashboardShown /\ hasRequiredHeaders
    /\ drawThreshold' = value
    /\ UNCHANGED <<view, datasets, analysisResults, isLoading, error, reads, awaiting,
                   selectedFile, sureWinThreshold, lenientDate, analysisVars, slipVars, matchupVars>>

-----------------------------------------------------------------------------
(* Team matchup page: schema resolution (src/components/TeamMatchupPage.tsx) *)

UpperCase == <<"A", "B", "C", "D", "E", "F", "G", "H", "I", "J", "K", "L", "M", "N", "O", "P", "Q", "R", "S", "T", "U", "V", "W", "X", "Y", "Z">>
LowerCase == <<"a", "b", "c", "d", "e", "f", "g", "h", "i", "j", "k", "l", "m", "n", "o", "p", "q", "r", "s", "t", "u", "v", "w", "x", "y", "z">>

\* the lower-case and the upper-case form of a letter
LowerOf == [c \in {UpperCase[i] : i \in 1..26} |-> LowerCase[CHOOSE i \in 1..26 : UpperCase[i] = c]]
UpperOf == [c \in {LowerCase[i] : i \in 1..26} |-> UpperCase[CHOOSE i \in 1..26 : LowerCase[i] = c]]

ToLower(c) == IF c \in DOMAIN LowerOf THEN LowerOf[c] ELSE c

ToUpper(c) == IF c \in DOMAIN UpperOf THEN UpperOf[c] ELSE c

\* String.prototype.toLowerCase and toUpperCase
ToLowerCase(s) == [i \in 1..Len(s) |-> ToLower(s[i])]
ToUpperCase(s) == [i \in 1..Len(s) |-> ToUpper(s[i])]

\* the character class [\s-]
IsGap(c) == IsSpace(c) \/ c = "-"

RECURSIVE DropGaps(_)
DropGaps(s) == IF s # <<>> /\ IsGap(Head(s)) THEN DropGaps(Tail(s)) ELSE s

RECURSIVE ReplaceGaps(_)
\* replace(/[\s-]+/g, '_'): every maximal run of white space and hyphens becomes one '_'
ReplaceGaps(s) ==
    IF s = <<>> THEN <<>>
    ELSE IF IsGap(Head(s)) THEN <<"_">> \o ReplaceGaps(DropGaps(Tail(s)))
    ELSE <<Head(s)>> \o ReplaceGaps(Tail(s))

normalizeHeader(value) == ToLowerCase(ReplaceGaps(value))

Predicted == <<"P", "r", "e", "d", "i", "c", "t", "e", "d">>
Prob_Max == <<"P", "r", "o", "b", "_", "M", "a", "x">>
Lambda_Home == <<"L", "a", "m", "b", "d", "a", "_", "H", "o", "m", "e">>
Lambda_Away == <<"L", "a", "m", "b", "d", "a", "_", "A", "w", "a", "y">>
Date == <<"D", "a", "t", "e">>
Div == <<"D", "i", "v">>

REQUIRED_COLUMNS == <<Team, Opponent, Predicted, Prob_Max, Lambda_Home, Lambda_Away, Date, Div>>

\* COLUMN_ALIASES[column] || []
COLUMN_ALIASES(column) ==
    IF column = Prob_Max THEN <<<<"P", "r", "o", "b", " ", "M", "a", "x">>, <<"p", "r", "o", "b", "a", "b", "i", "l", "i", "t", "y", "_", "m", "a", "x">>>>
    ELSE IF column = Lambda_Home THEN <<<<"L", "a", "m", "b", "d", "a", " ", "H", "o", "m", "e">>, <<"l", "a", "m", "b", "d", "a", "-", "h", "o", "m", "e">>>>
    ELSE IF column = Lambda_Away THEN <<<<"L", "a", "m", "b", "d", "a", " ", "A", "w", "a", "y">>, <<"l", "a", "m", "b", "d", "a", "-", "a", "w", "a", "y">>>>
    ELSE <<>>

\* [column, ...aliases].map(normalizeHeader)
Candidates(column) ==
    LET names == <<column>> \o COLUMN_ALIASES(column)
    IN {normalizeHeader(names[i]) : i \in 1..Len(names)}

\* headers.map(header => ({original: header, normalized: normalizeHeader(header)}))
NormalizedHeaders(headers) ==
    [i \in 1..Len(headers) |-> [original |-> headers[i], normalized |-> normalizeHeader(headers[i])]]

\* normalizedHeaders.find(header => accepted.includes(header.normalized)), as a list of at most one header
FindHeader(normalizedHeaders, accepted) ==
    LET Hit(header) == header.normalized \in accepted
    IN First(SelectSeq(normalizedHeaders, Hit))

\* schema resolution that asks for the first six columns only; a Date or Div
\* without header maps to no header
getColumnMapDateDivOptional(headers) ==
    LET normalizedHeaders == NormalizedHeaders(headers)
        match == [k \in 1..Len(REQUIRED_COLUMNS) |->
                     FindHeader(normalizedHeaders, Candidates(REQUIRED_COLUMNS[k]))]
        missing == {k \in 1..6 : match[k] = <<>>}
    IN IF missing # {}
       THEN [missing |-> <<REQUIRED_COLUMNS[CHOOSE k \in missing : \A j \in missing : k <= j]>>,
             columnMap |-> <<>>]
       ELSE [missing |-> <<>>,
             columnMap |-> [column \in Range(REQUIRED_COLUMNS) |->
                               LET m == match[CHOOSE k \in 1..Len(REQUIRED_COLUMNS) : REQUIRED_COLUMNS[k] = column]
                               IN IF m = <<>> THEN <<>> ELSE m[1].original]]

\* schema resolution that knows no aliases
getColumnMapNoAliases(headers) ==
    LET normalizedHeaders == NormalizedHeaders(headers)
        match == [k \in 1..Len(REQUIRED_COLUMNS) |->
                     FindHeader(normalizedHeaders, {normalizeHeader(REQUIRED_COLUMNS[k])})]
        missing == {k \in 1..Len(REQUIRED_COLUMNS) : match[k] = <<>>}
    IN IF missing # {}
       THEN [missing |-> <<REQUIRED_COLUMNS[CHOOSE k \in missing : \A j \in missing : k <= j]>>,
             columnMap |-> <<>>]
       ELSE [missing |-> <<>>,
             columnMap |-> [column \in Range(REQUIRED_COLUMNS) |->
                               match[CHOOSE k \in 1..Len(REQUIRED_COLUMNS) : REQUIRED_COLUMNS[k] = column][1].original]]

\* the column map, or the first required column (in REQUIRED_COLUMNS order) without a
\* matching header, for which getColumnMap throws 'Missing required column: <column>'
getColumnMap(headers) ==
    LET normalizedHeaders == NormalizedHeaders(headers)
        match == [k \in 1..Len(REQUIRED_COLUMNS) |->
                     FindHeader(normalizedHeaders, Candidates(REQUIRED_COLUMNS[k]))]
        missing == {k \in 1..Len(REQUIRED_COLUMNS) : match[k] = <<>>}
    IN IF missing # {}
       THEN [missing |-> <<REQUIRED_COLUMNS[CHOOSE k \in missing : \A j \in missing : k <= j]>>,
             columnMap |-> <<>>]
       ELSE [missing |-> <<>>,
             columnMap |-> [column \in Range(REQUIRED_COLUMNS) |->
                               match[CHOOSE k \in 1..Len(REQUIRED_COLUMNS) : REQUIRED_COLUMNS[k] = column][1].original]]

RECURSIVE IntToString(_)
\* the decimal digits of a non-negative integer
IntToString(q) == IF q < 10 THEN <<Digits[q + 1]>> ELSE IntToString(q \div 10) \o <<Digits[(q % 10) + 1]>>

\* String(n) for a non-negative number (value = n / 100)
NumberToString(n) ==
    LET frac == n % 100
    IN IntToString(n \div 100)
         \o (IF frac = 0 THEN <<>>
             ELSE IF frac % 10 = 0 THEN <<".", Digits[(frac \div 10) + 1]>>
             ELSE <<".", Digits[(frac \div 10) + 1], Digits[(frac % 10) + 1]>>)

\* String(v ?? fallback)
StringOr(v, fallback) ==
    CASE v.ty = "string" -> v.str
      [] v.ty = "number" -> NumberToString(v.num)
      [] OTHER -> fallback

\* toNumber: a number as it is, anything else through Number, 0 when that is not finite
toNumber(v) ==
    CASE v.ty = "number" -> v.num
      [] v.ty = "string" -> IF StringIsNaN(v.str) THEN 0 ELSE StringToNumber(v.str)
      [] OTHER -> 0

DIVISION_LABELS ==
    (<<"E", "0">> :> <<"E", "n", "g", " ", "P", "r", "e", "m", "i", "e", "r", " ", "L", "e", "a", "g", "u", "e">>) @@
    (<<"E", "1">> :> <<"E", "n", "g", " ", "C", "h", "a", "m", "p", "i", "o", "n", "s", "h", "i", "p">>) @@
    (<<"E", "2">> :> <<"E", "n", "g", " ", "L", "e", "a", "g", "u", "e", " ", "1">>) @@
    (<<"E", "3">> :> <<"E", "n", "g", " ", "L", "e", "a", "g", "u", "e", " ", "2">>) @@
    (<<"E", "C">> :> <<"E", "n", "g", " ", "C", "o", "n", "f", "e", "r", "e", "n", "c", "e">>) @@
    (<<"S", "C", "0">> :> <<"S", "c", "t", " ", "P", "r", "e", "m", "i", "e", "r", " ", "L", "e", "a", "g", "u", "e">>) @@
    (<<"S", "C", "1">> :> <<"S", "c", "t", " ", "D", "i", "v", "i", "s", "i", "o", "n", " ", "1">>) @@
    (<<"S", "C", "2">> :> <<"S", "c", "t", " ", "D", "i", "v", "i", "s", "i", "o", "n", " ", "2">>) @@
    (<<"S", "C", "3">> :> <<"S", "c", "t", " ", "D", "i", "v", "i", "s", "i", "o", "n", " ", "3">>) @@
    (<<"D", "1">> :> <<"B", "u", "n", "d", "e", "s", "l", "i", "g", "a">>) @@
    (<<"D", "2">> :> <<"B", "u", "n", "d", "e", "s", "l", "i", "g", "a", " ", "2">>) @@
    (<<"I", "1">> :> <<"S", "e", "r", "i", "e", " ", "A">>) @@
    (<<"I", "2">> :> <<"S", "e", "r", "i", "e", " ", "B">>) @@
    (<<"S", "P", "1">> :> <<"L", "a", " ", "L", "i", "g", "a">>) @@
    (<<"S", "P", "2">> :> <<"L", "a", " ", "L", "i", "g", "a", " ", "S", "e", "g", "u", "n", "d", "a">>) @@
    (<<"F", "1">> :> <<"L", "e", " ", "C", "h", "a", "m", "p", "i", "o", "n", "n", "a", "t">>) @@
    (<<"F", "2">> :> <<"F", "r", " ", "D", "i", "v", "i", "s", "i", "o", "n", " ", "2">>) @@
    (<<"N", "1">> :> <<"E", "r", "e", "d", "i", "v", "i", "s", "i", "e">>) @@
    (<<"B", "1">> :> <<"B", "e", "l", " ", "J", "u", "p", "i", "l", "e", "r", " ", "L", "e", "a", "g", "u", "e">>) @@
    (<<"P", "1">> :> <<"P", "o", "r", " ", "L", "i", "g", "a", " ", "I">>) @@
    (<<"T", "1">> :> <<"T", "u", "r", " ", "F", "u", "t", "b", "o", "l", " ", "L", "i", "g", "i", " ", "1">>) @@
    (<<"G", "1">> :> <<"G", "r", "e", "e", "k", " ", "E", "t", "h", "n", "i", "k", "i", " ", "K", "a", "t", "i", "g", "o", "r", "i", "a">>)

\* formatDivision
formatDivision(v) ==
    LET code == CASE v.ty = "string" -> ToUpperCase(Trim(v.str))
                  [] v.ty = "number" -> IF v.num = 0 THEN <<>> ELSE NumberToString(v.num)
                  [] OTHER -> <<>>
    IN IF code = <<>> THEN <<>>
       ELSE IF code \in DOMAIN DIVISION_LABELS THEN DIVISION_LABELS[code] ELSE code

Unknown == <<"U", "n", "k", "n", "o", "w", "n">>

\* handleCSVUpload's normalizedRows: one MatchupRow per parsed row
NormalizedRows(parsed, columnMap) ==
    [r \in 1..Len(parsed.data) |->
        [Team |-> StringOr(Get(parsed.data[r], columnMap[Team]), <<>>),
         Opponent |-> StringOr(Get(parsed.data[r], columnMap[Opponent]), <<>>),
         Predicted |-> StringOr(Get(parsed.data[r], columnMap[Predicted]), Unknown),
         Prob_Max |-> toNumber(Get(parsed.data[r], columnMap[Prob_Max])),
         Lambda_Home |-> toNumber(Get(parsed.data[r], columnMap[Lambda_Home])),
         Lambda_Away |-> toNumber(Get(parsed.data[r], columnMap[Lambda_Away])),
         Date |-> StringOr(Get(parsed.data[r], columnMap[Date]), <<>>),
         Div |-> formatDivision(Get(parsed.data[r], columnMap[Div]))]]

-----------------------------------------------------------------------------
(* Team matchup page: bet criteria and slips *)

MAX_SELECTIONS_PER_CRITERIA == 5

DefaultLambdaTolerance == 5

\* a BetCriteriaSetting; an optional number is a list of at most one number, in hundredths
Setting(id, groups, probMin, lambdaHomeTarget, lambdaTolerance) ==
    [id |-> id, groups |-> groups, probMin |-> probMin,
     lambdaHomeTarget |-> lambdaHomeTarget, lambdaTolerance |-> lambdaTolerance]

Score00 == <<"0", "-", "0">>
Score01 == <<"0", "-", "1">>
Score10 == <<"1", "-", "0">>
Score11 == <<"1", "-", "1">>
Score20 == <<"2", "-", "0">>
Score31 == <<"3", "-", "1">>

DEFAULT_ACCUMULATOR_SETTINGS ==
    <<Setting("acc-under-25", <<Score00, Score01, Score10>>, <<13>>, <<>>, <<>>),
      Setting("acc-over35-btts", <<Score31>>, <<>>, <<>>, <<>>),
      Setting("acc-btts", <<Score11>>, <<>>, <<150>>, <<5>>),
      Setting("acc-home-edge", <<Score20>>, <<13>>, <<>>, <<>>)>>

DEFAULT_SINGLE_SETTINGS ==
    <<Setting("single-correct-score", <<Score11>>, <<>>, <<150>>, <<5>>),
      Setting("single-slim-win", <<Score10>>, <<13>>, <<>>, <<>>),
      Setting("single-zero-digit", <<Score00>>, <<11>>, <<>>, <<>>)>>

Abs(x) == IF x < 0 THEN -x ELSE x

\* rowMatchesSetting with no tolerance when lambdaTolerance is unset
rowMatchesSettingExactDefault(row, setting) ==
    /\ ~(Len(setting.groups) # 0 /\ row.Predicted \notin Range(setting.groups))
    /\ ~(setting.probMin # <<>> /\ row.Prob_Max < setting.probMin[1])
    /\ setting.lambdaHomeTarget # <<>> =>
          LET tolerance == IF setting.lambdaTolerance # <<>> THEN setting.lambdaTolerance[1] ELSE 0
          IN ~(Abs(row.Lambda_Home - setting.lambdaHomeTarget[1]) > tolerance)

\* rowMatchesSetting: three early returns of false, then true. The numbers of
\* the model are exact in hundredths; its rows and rules are such that the
\* floating-point difference Lambda_Home - target compares with the tolerance
\* as the exact difference does.
rowMatchesSetting(row, setting) ==
    /\ ~(Len(setting.groups) # 0 /\ row.Predicted \notin Range(setting.groups))
    /\ ~(setting.probMin # <<>> /\ row.Prob_Max < setting.probMin[1])
    /\ setting.lambdaHomeTarget # <<>> =>
          LET tolerance == IF setting.lambdaTolerance # <<>> THEN setting.lambdaTolerance[1]
                           ELSE DefaultLambdaTolerance
          IN ~(Abs(row.Lambda_Home - setting.lambdaHomeTarget[1]) > tolerance)

\* selections.slice(0, n)
Slice(s, n) == SubSeq(s, 1, IF Len(s) < n THEN Len(s) ELSE n)

\* a slip whose total counts the selections it lists
BetSlipCappedTotal(settings, filtered) ==
    LET Selections(setting) == SelectSeq(filtered, LAMBDA row : rowMatchesSetting(row, setting))
        Group(setting) == [setting |-> setting,
                           selections |-> Slice(Selections(setting), MAX_SELECTIONS_PER_CRITERIA),
                           total |-> Len(Slice(Selections(setting), MAX_SELECTIONS_PER_CRITERIA))]
        Kept == SelectSeq(settings, LAMBDA setting : Len(Selections(setting)) # 0)
    IN [k \in 1..Len(Kept) |-> Group(Kept[k])]

\* settings.map(setting => group or null).filter(Boolean): one group per
\* setting that selects a row, in the order of the settings
BetSlip(settings, filtered) ==
    LET Selections(setting) == SelectSeq(filtered, LAMBDA row : rowMatchesSetting(row, setting))
        Group(setting) == [setting |-> setting,
                           selections |-> Slice(Selections(setting), MAX_SELECTIONS_PER_CRITERIA),
                           total |-> Len(Selections(setting))]
        Kept == SelectSeq(settings, LAMBDA setting : Len(Selections(setting)) # 0)
    IN [k \in 1..Len(Kept) |-> Group(Kept[k])]

-----------------------------------------------------------------------------
(* Bet criteria applied to rows: the inputs of rowMatchesSetting and of a slip *)

Row(team, predicted, prob, lambdaHome) ==
    [Team |-> <<team>>, Opponent |-> <<"Z">>, Predicted |-> predicted, Prob_Max |-> prob,
     Lambda_Home |-> lambdaHome, Lambda_Away |-> 100, Date |-> <<>>, Div |-> <<>>]

\* seven rows predicted 1-1 with Lambda_Home around 1.5, then a 1-0, a 0-0 and a row of defaults
BaseRows ==
    <<Row("A", Score11, 20, 150), Row("C", Score11, 15, 152), Row("E", Score11, 12, 160),
      Row("G", Score11, 30, 148), Row("I", Score11, 25, 150), Row("K", Score11, 18, 153),
      Row("M", Score11, 22, 147), Row("O", Score10, 13, 200), Row("Q", Score00, 12, 100),
      Row("S", <<>>, 0, 0)>>

\* the filtered rows: the runs of consecutive rows of BaseRows
CandidateLists ==
    {SubSeq(BaseRows, a, b) : a \in 1..(Len(BaseRows) + 1), b \in 0..Len(BaseRows)}

\* two default criteria, a criterion without conditions, one with a target and
\* no tolerance, one with a wide tolerance and no groups, one for a group no row has
CriteriaPool ==
    {DEFAULT_SINGLE_SETTINGS[1],
     DEFAULT_ACCUMULATOR_SETTINGS[1],
     Setting("any", <<>>, <<>>, <<>>, <<>>),
     Setting("target-only", <<Score11>>, <<>>, <<150>>, <<>>),
     Setting("wide", <<>>, <<0>>, <<150>>, <<50>>),
     DEFAULT_ACCUMULATOR_SETTINGS[2]}

CriteriaLists == UNION {[1..n -> CriteriaPool] : n \in 0..MaxCriteria}

SlipIdle ==
    /\ criteria = <<>>
    /\ candidates = <<>>
    /\ matches = <<>>
    /\ slip = <<>>

\* rowMatchesSetting(row, setting) for every criterion and candidate
EvaluateCriteria ==
    /\ matches = <<>>
    /\ matches' = <<[k \in 1..Len(criteria) |->
                       [r \in 1..Len(candidates) |-> rowMatchesSetting(candidates[r], criteria[k])]]>>
    /\ UNCHANGED <<criteria, candidates, slip, lenientDate, analysisVars, appVars, matchupVars>>

\* the accumulatorSlip and singleSlip memo
BuildSlip ==
    /\ slip = <<>>
    /\ slip' = <<BetSlip(criteria, candidates)>>
    /\ UNCHANGED <<criteria, candidates, matches, lenientDate, analysisVars, appVars, matchupVars>>

-----------------------------------------------------------------------------
(* Team matchup page: the component's state and handlers *)

All == <<"A", "l", "l">>

NoMatchupError == [kind |-> "", file |-> "", column |-> <<>>, detail |-> ""]

\* new Error(`Missing required column: ${column}`).message
MissingColumn(column) == [kind |-> "Missing required column", file |-> "", column |-> column, detail |-> ""]

\* the message of a rejected parseCSV promise
ParseFailure(reason) ==
    [kind |-> reason[1], file |-> reason[2], column |-> <<>>,
     detail |-> IF Len(reason) > 2 THEN reason[3] ELSE ""]

NoSummary == <<>>

\* `${file.name} · ${normalizedRows.length} rows`
FileSummary(name, count) == <<name, count>>

MatchupInit ==
    /\ rows = <<>>
    /\ fileSummary = NoSummary
    /\ matchupError = NoMatchupError
    /\ isParsing = FALSE
    /\ probFilter = 0
    /\ selectedPrediction = All
    /\ csvReads = <<>>
    /\ csvInput = ""
    /\ resultsPage = 1

\* probStats.min and probStats.max of a non-empty list of rows
ProbStatsMin(rs) == CHOOSE p \in {rs[r].Prob_Max : r \in 1..Len(rs)} : \A r \in 1..Len(rs) : p <= rs[r].Prob_Max
ProbStatsMax(rs) == CHOOSE p \in {rs[r].Prob_Max : r \in 1..Len(rs)} : \A r \in 1..Len(rs) : p >= rs[r].Prob_Max

\* Array.from(new Set(s)): the first occurrences, in order
Unique(s) ==
    LET firsts == {i \in 1..Len(s) : \A j \in 1..(i - 1) : s[j] # s[i]}
    IN [k \in 1..Cardinality(firsts) |->
           s[CHOOSE i \in firsts : Cardinality({j \in firsts : j < i}) = k - 1]]

\* predictionGroups: row.Predicted || 'Unknown'
PredictionGroups(rs) ==
    Unique([r \in 1..Len(rs) |-> IF rs[r].Predicted = <<>> THEN Unknown ELSE rs[r].Predicted])

predictionGroups == PredictionGroups(rows)

\* rows.filter(row => row.Prob_Max >= probFilter && (selectedPrediction === 'All' || row.Predicted === selectedPrediction))
FilteredRows(rs, filter, prediction) ==
    LET Shown(row) == /\ row.Prob_Max >= filter
                      /\ prediction = All \/ row.Predicted = prediction
    IN SelectSeq(rs, Shown)

filteredRows == FilteredRows(rows, probFilter, selectedPrediction)

RESULTS_PER_PAGE == 35

\* Math.max(1, Math.ceil(count / RESULTS_PER_PAGE))
TotalPages(count) ==
    LET pages == (count + RESULTS_PER_PAGE - 1) \div RESULTS_PER_PAGE
    IN IF pages < 1 THEN 1 ELSE pages

totalPages == TotalPages(Len(filteredRows))

\* the page is kept whatever totalPages becomes
PageAfterKept(page, before, after) == page

\* the effect on [totalPages]: when totalPages changes, a page beyond it becomes the last page
PageAfter(page, before, after) ==
    IF after # before /\ page > after THEN after ELSE page

pageStartIndex == (resultsPage - 1) * RESULTS_PER_PAGE

pageEndIndex ==
    IF Len(filteredRows) < pageStartIndex + RESULTS_PER_PAGE
    THEN Len(filteredRows) ELSE pageStartIndex + RESULTS_PER_PAGE

\* filteredRows.slice(pageStartIndex, pageEndIndex)
paginatedRows == SubSeq(filteredRows, pageStartIndex + 1, pageEndIndex)

\* the stops of the Prob_Max slider (from probStats.min upwards in steps of 0.01) that the model moves it to
ProbFilterStops ==
    IF rows = <<>> THEN {}
    ELSE LET min == ProbStatsMin(rows)
             max == ProbStatsMax(rows)
         IN {v \in {min, 13, 20, max} : min <= v /\ v <= max}

\* eight columns under their own names; the last row has an empty Predicted,
\* a textual Prob_Max and an empty Lambda_Home
FullFile ==
    File("full.csv",
         JoinWith(<<CsvLine(<<<<"T", "e", "a", "m">>, <<"O", "p", "p", "o", "n", "e", "n", "t">>, <<"P", "r", "e", "d", "i", "c", "t", "e", "d">>, <<"P", "r", "o", "b", "_", "M", "a", "x">>, <<"L", "a", "m", "b", "d", "a", "_", "H", "o", "m", "e">>, <<"L", "a", "m", "b", "d", "a", "_", "A", "w", "a", "y">>, <<"D", "a", "t", "e">>, <<"D", "i", "v">>>>),
                   CsvLine(<<<<"A">>, <<"B">>, <<"1", "-", "1">>, <<"0", ".", "2">>, <<"1", ".", "5">>, <<"1", ".", "1">>, <<"2", "0", "2", "4", "-", "0", "1", "-", "0", "1">>, <<"E", "0">>>>),
                   CsvLine(<<<<"C">>, <<"D">>, <<"1", "-", "1">>, <<"0", ".", "1", "5">>, <<"1", ".", "5", "2">>, <<"1">>, <<"2", "0", "2", "4", "-", "0", "1", "-", "0", "1">>, <<"E", "0">>>>),
                   CsvLine(<<<<"E">>, <<"F">>, <<"1", "-", "1">>, <<"0", ".", "1", "2">>, <<"1", ".", "6">>, <<"1", ".", "2">>, <<"2", "0", "2", "4", "-", "0", "1", "-", "0", "2">>, <<"s", "p", "1">>>>),
                   CsvLine(<<<<"G">>, <<"H">>, <<"1", "-", "1">>, <<"0", ".", "3">>, <<"1", ".", "4", "8">>, <<"0", ".", "9">>, <<"2", "0", "2", "4", "-", "0", "1", "-", "0", "2">>, <<"E", "0">>>>),
                   CsvLine(<<<<"I">>, <<"J">>, <<"1", "-", "1">>, <<"0", ".", "2", "5">>, <<"1", ".", "5">>, <<"1">>, <<"2", "0", "2", "4", "-", "0", "1", "-", "0", "3">>, <<"E", "0">>>>),
                   CsvLine(<<<<"K">>, <<"L">>, <<"1", "-", "1">>, <<"0", ".", "1", "8">>, <<"1", ".", "5", "3">>, <<"1", ".", "4">>, <<"2", "0", "2", "4", "-", "0", "1", "-", "0", "3">>, <<"E", "0">>>>),
                   CsvLine(<<<<"M">>, <<"N">>, <<"1", "-", "1">>, <<"0", ".", "2", "2">>, <<"1", ".", "4", "7">>, <<"1", ".", "3">>, <<"2", "0", "2", "4", "-", "0", "1", "-", "0", "4">>, <<"X", "X">>>>),
                   CsvLine(<<<<"O">>, <<"P">>, <<"1", "-", "0">>, <<"0", ".", "1", "3">>, <<"2">>, <<"0", ".", "5">>, <<"2", "0", "2", "4", "-", "0", "1", "-", "0", "4">>, <<"E", "0">>>>),
                   CsvLine(<<<<"Q">>, <<"R">>, <<"0", "-", "0">>, <<"0", ".", "1", "2">>, <<"1">>, <<"1">>, <<"2", "0", "2", "4", "-", "0", "1", "-", "0", "5">>, <<"E", "0">>>>),
                   CsvLine(<<<<"S">>, <<"T">>, <<>>, <<"n", "/", "a">>, <<>>, <<"0", ".", "7">>, <<>>, <<>>>>)>>, <<"\n">>) \o <<"\n">>)

\* eight columns under aliases and other spellings
AliasFile ==
    File("alias.csv",
         JoinWith(<<CsvLine(<<<<"t", "e", "a", "m">>, <<"O", "P", "P", "O", "N", "E", "N", "T">>, <<"p", "r", "e", "d", "i", "c", "t", "e", "d">>, <<"P", "r", "o", "b", "a", "b", "i", "l", "i", "t", "y", "-", "M", "a", "x">>, <<"l", "a", "m", "b", "d", "a", "-", "h", "o", "m", "e">>, <<"L", "a", "m", "b", "d", "a", " ", " ", "-", " ", "A", "w", "a", "y">>, <<"D", "A", "T", "E">>, <<"d", "i", "v">>>>),
                   CsvLine(<<<<"A">>, <<"B">>, <<"3", "-", "1">>, <<"0", ".", "4">>, <<"2", ".", "1">>, <<"1", ".", "9">>, <<"2", "0", "2", "4", "-", "0", "2", "-", "0", "1">>, <<"d", "1">>>>),
                   CsvLine(<<<<"7">>, <<"B">>, <<"2">>, <<"0", ".", "1">>, <<"1", ".", "5">>, <<"1">>, <<"2", "0", "2", "4", "-", "0", "2", "-", "0", "2">>, <<"0">>>>)>>, <<"\n">>))

\* no Lambda_Away: 'LambdaAway' has no separator to normalize
NoAwayFile ==
    File("noaway.csv",
         JoinWith(<<CsvLine(<<<<"T", "e", "a", "m">>, <<"O", "p", "p", "o", "n", "e", "n", "t">>, <<"P", "r", "e", "d", "i", "c", "t", "e", "d">>, <<"P", "r", "o", "b", "_", "M", "a", "x">>, <<"L", "a", "m", "b", "d", "a", "_", "H", "o", "m", "e">>, <<"L", "a", "m", "b", "d", "a", "A", "w", "a", "y">>, <<"D", "a", "t", "e">>, <<"D", "i", "v">>>>),
                   CsvLine(<<<<"A">>, <<"B">>, <<"1", "-", "1">>, <<"0", ".", "2">>, <<"1", ".", "5">>, <<"1", ".", "1">>, <<"2", "0", "2", "4", "-", "0", "1", "-", "0", "1">>, <<"E", "0">>>>),
                   CsvLine(<<<<"C">>, <<"D">>, <<"1", "-", "0">>, <<"0", ".", "3">>, <<"1", ".", "7">>, <<"1">>, <<"2", "0", "2", "4", "-", "0", "1", "-", "0", "2">>, <<"E", "0">>>>)>>, <<"\n">>))

\* the first six columns, neither Date nor Div
SixColumnFile ==
    File("six.csv",
         JoinWith(<<CsvLine(<<<<"T", "e", "a", "m">>, <<"O", "p", "p", "o", "n", "e", "n", "t">>, <<"P", "r", "e", "d", "i", "c", "t", "e", "d">>, <<"P", "r", "o", "b", "_", "M", "a", "x">>, <<"L", "a", "m", "b", "d", "a", "_", "H", "o", "m", "e">>, <<"L", "a", "m", "b", "d", "a", "_", "A", "w", "a", "y">>>>),
                   CsvLine(<<<<"A">>, <<"B">>, <<"1", "-", "1">>, <<"0", ".", "2">>, <<"1", ".", "5">>, <<"1", ".", "1">>>>),
                   CsvLine(<<<<"C">>, <<"D">>, <<"1", "-", "0">>, <<"0", ".", "3">>, <<"1", ".", "7">>, <<"1">>>>)>>, <<"\n">>))

\* every column but Div
NoDivFile ==
    File("nodiv.csv",
         JoinWith(<<CsvLine(<<<<"T", "e", "a", "m">>, <<"O", "p", "p", "o", "n", "e", "n", "t">>, <<"P", "r", "e", "d", "i", "c", "t", "e", "d">>, <<"P", "r", "o", "b", "_", "M", "a", "x">>, <<"L", "a", "m", "b", "d", "a", "_", "H", "o", "m", "e">>, <<"L", "a", "m", "b", "d", "a", "_", "A", "w", "a", "y">>, <<"D", "a", "t", "e">>>>),
                   CsvLine(<<<<"A">>, <<"B">>, <<"1", "-", "1">>, <<"0", ".", "2">>, <<"1", ".", "5">>, <<"1", ".", "1">>, <<"2", "0", "2", "4", "-", "0", "1", "-", "0", "1">>>>),
                   CsvLine(<<<<"C">>, <<"D">>, <<"1", "-", "0">>, <<"0", ".", "3">>, <<"1", ".", "7">>, <<"1">>, <<"2", "0", "2", "4", "-", "0", "1", "-", "0", "2">>>>)>>, <<"\n">>))

\* neither Predicted nor Lambda_Home
NoPredictedFile ==
    File("nopredicted.csv",
         JoinWith(<<CsvLine(<<<<"T", "e", "a", "m">>, <<"O", "p", "p", "o", "n", "e", "n", "t">>, <<"P", "r", "o", "b", "_", "M", "a", "x">>, <<"L", "a", "m", "b", "d", "a", "_", "A", "w", "a", "y">>, <<"D", "a", "t", "e">>, <<"D", "i", "v">>>>),
                   CsvLine(<<<<"A">>, <<"B">>, <<"0", ".", "2">>, <<"1", ".", "1">>, <<"2", "0", "2", "4", "-", "0", "1", "-", "0", "1">>, <<"E", "0">>>>),
                   CsvLine(<<<<"C">>, <<"D">>, <<"0", ".", "3">>, <<"1">>, <<"2", "0", "2", "4", "-", "0", "1", "-", "0", "2">>, <<"E", "0">>>>)>>, <<"\n">>))

\* BigFileRows rows over more than two pages: the first half at Prob_Max 0.2, the second at 0.3,
\* predicted 1-1 and 2-0 in turn
BigFile ==
    LET header == CsvLine(<<Team, Opponent, Predicted, Prob_Max, Lambda_Home, Lambda_Away, Date, Div>>)
        line(r) == CsvLine(<<<<"A">>, <<"B">>,
                             IF r % 2 = 1 THEN <<"1", "-", "1">> ELSE <<"2", "-", "0">>,
                             IF 2 * r <= BigFileRows THEN <<"0", ".", "2">> ELSE <<"0", ".", "3">>,
                             <<"1", ".", "5">>, <<"1">>, <<"d">>, <<"E", "0">>>>)
        width == Len(line(1)) + 1
    IN File("big.csv",
            header \o [i \in 1..(BigFileRows * width) |->
                          IF (i - 1) % width = 0 THEN "\n"
                          ELSE line(((i - 1) \div width) + 1)[(i - 1) % width]])

MatchupFiles == {FullFile, AliasFile, NoAwayFile, SixColumnFile, NoDivFile, NoPredictedFile,
                 HeaderOnlyFile, UnreadableFile, BigFile}

\* the file of that name
MatchupFile(name) == CHOOSE file \in MatchupFiles : file.name = name

\* handleCSVUpload up to its await; the effects on rows reset both filters.
\* It is the input's onChange: it runs when the input's file changes
handleCSVUpload(file) ==
    /\ Len(csvReads) < MaxReads
    /\ file.name # csvInput
    /\ isParsing' = TRUE
    /\ matchupError' = NoMatchupError
    /\ rows' = <<>>
    /\ fileSummary' = NoSummary
    /\ csvReads' = Append(csvReads, file.name)
    /\ csvInput' = file.name
    /\ probFilter' = 0
    /\ selectedPrediction' = All
    /\ resultsPage' = PageAfter(resultsPage, totalPages, TotalPages(0))
    /\ UNCHANGED <<lenientDate, analysisVars, appVars, slipVars>>

\* what the try block of handleCSVUpload makes of a file: the error it throws
\* (from parseCSV or from getColumnMap), or the normalized rows
UploadOutcome(file) ==
    LET parsed == parseCSV(file)
        resolution == getColumnMap(parsed.value.headers)
    IN IF parsed.state = "rejected"
       THEN [thrown |-> TRUE, error |-> ParseFailure(parsed.reason), rows |-> <<>>]
       ELSE IF resolution.missing # <<>>
       THEN [thrown |-> TRUE, error |-> MissingColumn(resolution.missing[1]), rows |-> <<>>]
       ELSE [thrown |-> FALSE, error |-> NoMatchupError,
             rows |-> NormalizedRows(parsed.value, resolution.columnMap)]

\* the outcome of every file by name: a file's text does not change between two reads
UploadOutcomes == [name \in {file.name : file \in MatchupFiles} |-> UploadOutcome(MatchupFile(name))]

\* the read of upload i ends and its handleCSVUpload runs to its end (try,
\* catch, finally); the effects on rows set the probability filter to the
\* smallest Prob_Max and drop a group selection that no longer exists, and
\* the effect on totalPages runs after the render with the new rows and again
\* after the render with the new filters
CSVRead(i) ==
    /\ i \in 1..Len(csvReads)
    /\ LET outcome == UploadOutcomes[csvReads[i]]
       IN IF outcome.thrown
          THEN /\ matchupError' = outcome.error
               /\ UNCHANGED <<rows, fileSummary, probFilter, selectedPrediction, resultsPage>>
          ELSE /\ rows' = outcome.rows
               /\ fileSummary' = FileSummary(csvReads[i], Len(rows'))
               /\ probFilter' = ProbStatsMin(rows')
               /\ selectedPrediction' =
                     IF selectedPrediction # All /\ selectedPrediction \notin Range(PredictionGroups(rows'))
                     THEN All ELSE selectedPrediction
               /\ LET rendered == TotalPages(Len(FilteredRows(rows', probFilter, selectedPrediction)))
                      settled == TotalPages(Len(FilteredRows(rows', probFilter', selectedPrediction')))
                  IN resultsPage' = PageAfter(PageAfter(resultsPage, totalPages, rendered), rendered, settled)
               /\ UNCHANGED matchupError
    /\ isParsing' = FALSE
    /\ csvReads' = SubSeq(csvReads, 1, i - 1) \o SubSeq(csvReads, i + 1, Len(csvReads))
    /\ UNCHANGED <<csvInput, lenientDate, analysisVars, appVars, slipVars>>

\* the Prob_Max slider, shown when rows are loaded
setProbFilter(value) ==
    /\ rows # <<>>
    /\ probFilter' = value
    /\ resultsPage' = PageAfter(resultsPage, totalPages,
                                TotalPages(Len(FilteredRows(rows, value, selectedPrediction))))
    /\ UNCHANGED <<rows, fileSummary, matchupError, isParsing, selectedPrediction, csvReads, csvInput,
                   lenientDate, analysisVars, appVars, slipVars>>

\* the predicted-group selector: 'All' or one of predictionGroups
setSelectedPrediction(group) ==
    /\ rows # <<>>
    /\ selectedPrediction' = group
    /\ resultsPage' = PageAfter(resultsPage, totalPages,
                                TotalPages(Len(FilteredRows(rows, probFilter, group))))
    /\ UNCHANGED <<rows, fileSummary, matchupError, isParsing, probFilter, csvReads, csvInput,
                   lenientDate, analysisVars, appVars, slipVars>>

\* the 'Next' button, disabled on the last page and when no row passes the filters
goToNextPage ==
    /\ rows # <<>>
    /\ ~(resultsPage >= totalPages \/ filteredRows = <<>>)
    /\ resultsPage' = IF totalPages < resultsPage + 1 THEN totalPages ELSE resultsPage + 1
    /\ UNCHANGED <<rows, fileSummary, matchupError, isParsing, probFilter, selectedPrediction, csvReads, csvInput,
                   lenientDate, analysisVars, appVars, slipVars>>

\* the 'Previous' button, disabled on page 1
goToPreviousPage ==
    /\ rows # <<>>
    /\ resultsPage # 1
    /\ resultsPage' = IF 1 > resultsPage - 1 THEN 1 ELSE resultsPage - 1
    /\ UNCHANGED <<rows, fileSummary, matchupError, isParsing, probFilter, selectedPrediction, csvReads, csvInput,
                   lenientDate, analysisVars, appVars, slipVars>>

-----------------------------------------------------------------------------
(* State machine: a table is built column by column, then analysed *)

Init ==
    /\ \E n \in RowCounts :
         csvData = [fileName |-> "data.csv", headers |-> <<>>, data |-> [i \in 1..n |-> NoRow]]
    /\ lenientDate \in BOOLEAN
    /\ analysis = NoResult
    /\ firstAnalysis = NoResult
    /\ columnAnalyses = <<>>
    /\ calls = 0
    /\ plain = TRUE
    /\ AppInit /\ SlipIdle /\ MatchupInit

\* parseCSV's headers.forEach: row[header] = value, the last write to a name wins;
\* a "missing" gap leaves the key out of the row
AddColumn(name, p) ==
    /\ calls = 0
    /\ \/ Len(csvData.headers) < MaxCols
       \/ Len(csvData.headers) < MaxWideCols /\ plain /\ p \in CorePatterns
    /\ csvData' = [csvData EXCEPT
         !.headers = Append(@, name),
         !.data = [i \in 1..Len(@) |->
                     IF i <= p.lead /\ p.gap = "missing" THEN @[i]
                     ELSE (name :> PatternCell(p, i)) @@ @[i]]]
    /\ plain' = (plain /\ p \in CorePatterns)
    /\ UNCHANGED <<lenientDate, analysis, firstAnalysis, columnAnalyses, calls, appVars, slipVars, matchupVars>>

RECURSIVE Reverse(_)
Reverse(s) == IF s = <<>> THEN <<>> ELSE Reverse(Tail(s)) \o <<Head(s)>>

\* the table after a getAnalysis that reordered the caller's headers array in place
TableHeadersReversed(csv) == [csv EXCEPT !.headers = Reverse(@)]

\* getAnalysis reads headers and data through map, filter and slice only
TableAfterAnalysis(csv) == csv

Analyze ==
    /\ calls < MaxCalls
    /\ analysis' = getAnalysis(csvData, lenientDate)
    /\ firstAnalysis' = IF calls = 0 THEN analysis' ELSE firstAnalysis
    /\ columnAnalyses' = IF Len(csvData.data) = 0 THEN <<>>
                         ELSE ColumnAnalyses(csvData.headers, csvData.data, lenientDate)
    /\ csvData' = TableAfterAnalysis(csvData)
    /\ calls' = calls + 1
    /\ UNCHANGED <<lenientDate, plain, appVars, slipVars, matchupVars>>

Next ==
    \/ \E p \in Patterns :
         \E name \in {ColNames[Len(csvData.headers) + 1]}
                      \cup (IF Len(csvData.headers) = 1 THEN {ColNames[1]} ELSE {}) :
            AddColumn(name, p)
    \/ Analyze

Spec == Init /\ [][Next]_vars

-----------------------------------------------------------------------------
(* The dashboard, the bet criteria and the matchup page, each on its own *)

AnalysisIdle ==
    /\ csvData = NoTable
    /\ analysis = NoResult
    /\ firstAnalysis = NoResult
    /\ columnAnalyses = <<>>
    /\ calls = 0
    /\ plain = TRUE

InitApp == AppInit /\ AnalysisIdle /\ SlipIdle /\ MatchupInit /\ lenientDate \in BOOLEAN

NextApp ==
    \/ handleStartAnalysis
    \/ handleOpenTeamVisualizer
    \/ \E targetView \in {"dashboard", "matchups"} : handleNavigate(targetView)
    \/ handleReset
    \/ handleGoToLanding
    \/ \E files \in FileLists : handleFiles(files)
    \/ \E i \in 1..MaxFiles : FileRead(i)
    \/ \E name \in {f.name : f \in UploadFiles} : setSelectedFile(name)
    \/ \E value \in Thresholds : setSureWinThreshold(value)
    \/ \E value \in Thresholds : setDrawThreshold(value)

SpecApp == InitApp /\ [][NextApp]_vars

InitSlip ==
    /\ criteria \in CriteriaLists
    /\ candidates \in CandidateLists
    /\ matches = <<>>
    /\ slip = <<>>
    /\ AppInit /\ AnalysisIdle /\ MatchupInit /\ lenientDate = FALSE

NextSlip ==
    \/ EvaluateCriteria
    \/ BuildSlip

SpecSlip == InitSlip /\ [][NextSlip]_vars

\* every text of up to MaxTextLen characters over letters, digits, commas, blanks and line ends
ParseAlphabet == {"a", "1", ",", " ", "\n", "\r"}

ParseTexts == UNION {[1..n -> ParseAlphabet] : n \in 0..MaxTextLen}

ParseFiles == {File("t.csv", text) : text \in ParseTexts} \cup {UnreadableFile}

InitParse == AppInit /\ AnalysisIdle /\ SlipIdle /\ MatchupInit /\ lenientDate = FALSE

\* one file at a time is uploaded and read
NextParse ==
    \/ handleStartAnalysis
    \/ \E file \in ParseFiles : handleFiles(<<file>>)
    \/ FileRead(1)

SpecParse == InitParse /\ [][NextParse]_vars

InitMatchup == MatchupInit /\ AppInit /\ AnalysisIdle /\ SlipIdle /\ lenientDate = FALSE

NextMatchup ==
    \/ \E file \in MatchupFiles : handleCSVUpload(file)
    \/ \E i \in 1..MaxReads : CSVRead(i)
    \/ \E value \in ProbFilterStops : setProbFilter(value)
    \/ \E group \in {All} \cup Range(predictionGroups) : setSelectedPrediction(group)
    \/ goToNextPage
    \/ goToPreviousPage

SpecMatchup == InitMatchup /\ [][NextMatchup]_vars

-----------------------------------------------------------------------------
(* Vocabulary of the properties *)

Analysed == calls > 0

Charts == analysis.chartSuggestions

ChartsOf(type) == {i \in 1..Len(Charts) : Charts[i].type = type}

Cols == 1..Len(columnAnalyses)

\* column i is categorical with a unique count in 2..max
EligibleCategory(i, max) ==
    /\ columnAnalyses[i].type = "categorical"
    /\ columnAnalyses[i].uniqueCount > 1
    /\ columnAnalyses[i].uniqueCount <= max

\* i is the first column, in header order, of smallest uniqueCount within S
FirstSmallest(i, S) ==
    /\ i \in S
    /\ \A j \in S :
         \/ columnAnalyses[j].uniqueCount > columnAnalyses[i].uniqueCount
         \/ columnAnalyses[j].uniqueCount = columnAnalyses[i].uniqueCount /\ j >= i

\* i is the first column, in header order, of largest uniqueCount within S
FirstLargest(i, S) ==
    /\ i \in S
    /\ \A j \in S :
         \/ columnAnalyses[j].uniqueCount < columnAnalyses[i].uniqueCount
         \/ columnAnalyses[j].uniqueCount = columnAnalyses[i].uniqueCount /\ j >= i

NumericColumns == {i \in Cols : columnAnalyses[i].type = "numeric"}

DateColumns == {i \in Cols : columnAnalyses[i].type = "date"}

ChartRank(type) ==
    CASE type = "bar" -> 1 [] type = "pie" -> 2 [] type = "line" -> 3 [] type = "scatter" -> 4
      [] OTHER -> 0

-----------------------------------------------------------------------------
(* C1: calling getAnalysis a second time on the same table yields the same
   summary, insights and chartSuggestions as the first call, and the call
   leaves the table as it found it. *)
AnalysisIdempotent ==
    calls >= 2 =>
        /\ analysis.summary = firstAnalysis.summary
        /\ analysis.insights = firstAnalysis.insights
        /\ analysis.chartSuggestions = firstAnalysis.chartSuggestions

\* a table analysed twice whose suggestions rest on a tie between two columns
AnalysisIdempotentWitness ==
    /\ calls >= 2
    /\ Len(Charts) >= 2
    /\ \E i, j \in Cols : i # j /\ columnAnalyses[i].type = columnAnalyses[j].type
                          /\ columnAnalyses[i].uniqueCount = columnAnalyses[j].uniqueCount
                          /\ columnAnalyses[i].name # columnAnalyses[j].name

(* C2: whenever both a bar and a pie suggestion are emitted, the pie's column
   is not the bar's column, also for tables with a repeated header name. *)
BarPieDisjoint ==
    \A i \in ChartsOf("bar") : \A j \in ChartsOf("pie") : Charts[i].column # Charts[j].column

\* bar and pie both emitted for a table in which a header name is repeated
BarPieDisjointWitness ==
    /\ ChartsOf("bar") # {} /\ ChartsOf("pie") # {}
    /\ \E i, j \in 1..Len(csvData.headers) : i # j /\ csvData.headers[i] = csvData.headers[j]

(* C3: at most 4 chart suggestions, at most one of each kind, and the kinds
   present appear in the order bar, pie, line, scatter. *)
ChartsOrdered ==
    /\ Len(Charts) <= 4
    /\ \A i \in 1..Len(Charts) : ChartRank(Charts[i].type) > 0
    /\ \A i, j \in 1..Len(Charts) : i < j => ChartRank(Charts[i].type) < ChartRank(Charts[j].type)

\* all four kinds emitted at once
ChartsOrderedWitness == Analysed /\ Len(Charts) = 4

(* C4: a bar suggestion is emitted exactly when some categorical column has
   1 < uniqueCount <= 20; its column is then the first, in header order, of
   the categorical columns with the smallest such uniqueCount. *)
BarChoice ==
    Analysed /\ Len(csvData.data) > 0 =>
        LET eligible == {i \in Cols : EligibleCategory(i, 20)}
        IN /\ (ChartsOf("bar") # {}) = (eligible # {})
           /\ \A b \in ChartsOf("bar") :
                /\ \E i \in eligible : FirstSmallest(i, eligible) /\ Charts[b].column = columnAnalyses[i].name
                /\ \A i \in Cols :
                     columnAnalyses[i].type = "categorical"
                     /\ (columnAnalyses[i].uniqueCount = 1 \/ columnAnalyses[i].uniqueCount > 20)
                     /\ (\A j \in eligible : columnAnalyses[j].name # columnAnalyses[i].name)
                     => Charts[b].column # columnAnalyses[i].name

\* a bar is emitted although the first column is categorical with more than 20 values
BarChoiceWitness ==
    /\ Analysed /\ ChartsOf("bar") # {}
    /\ Len(columnAnalyses) >= 2
    /\ columnAnalyses[1].type = "categorical" /\ columnAnalyses[1].uniqueCount > 20
    /\ columnAnalyses[2].uniqueCount = 20

(* C5: a pie suggestion is emitted exactly when some categorical column other
   than the bar's column has 1 < uniqueCount <= 8; its column is then the
   first, in header order, of those with the smallest uniqueCount. *)
PieChoice ==
    Analysed /\ Len(csvData.data) > 0 =>
        LET barNames == {Charts[b].column : b \in ChartsOf("bar")}
            eligible == {i \in Cols : EligibleCategory(i, 8) /\ columnAnalyses[i].name \notin barNames}
        IN /\ (ChartsOf("pie") # {}) = (eligible # {})
           /\ \A q \in ChartsOf("pie") :
                \E i \in eligible : FirstSmallest(i, eligible) /\ Charts[q].column = columnAnalyses[i].name

\* a pie over a column of exactly 8 values, next to a bar over another column
PieChoiceWitness ==
    /\ Analysed /\ ChartsOf("bar") # {}
    /\ \E q \in ChartsOf("pie") : \E i \in Cols :
         columnAnalyses[i].name = Charts[q].column /\ columnAnalyses[i].uniqueCount = 8

(* C6: a scatter suggestion is emitted only if at least 2 numeric columns
   exist and the two of largest uniqueCount both have uniqueCount > 1; x is
   the numeric column of largest uniqueCount and y the second largest. *)
ScatterChoice ==
    \A s \in ChartsOf("scatter") :
        /\ Cardinality(NumericColumns) >= 2
        /\ \E i \in NumericColumns : \E j \in NumericColumns \ {i} :
             /\ FirstLargest(i, NumericColumns)
             /\ FirstLargest(j, NumericColumns \ {i})
             /\ columnAnalyses[i].uniqueCount > 1 /\ columnAnalyses[j].uniqueCount > 1
             /\ Charts[s].x_column = columnAnalyses[i].name
             /\ Charts[s].y_column = columnAnalyses[j].name

\* a scatter whose x column is not the first numeric column of the header
ScatterChoiceWitness ==
    /\ Analysed
    /\ Cardinality(NumericColumns) >= 3
    /\ \E s \in ChartsOf("scatter") : \E i \in NumericColumns :
         /\ i > 1 /\ 1 \in NumericColumns
         /\ Charts[s].x_column = columnAnalyses[i].name
         /\ Charts[s].x_column # columnAnalyses[1].name
         /\ Charts[s].y_column # Charts[s].x_column

(* C7: a line suggestion is emitted exactly when a date column exists and
   some numeric column has uniqueCount > 5; x is the first date column and y
   the first numeric column with uniqueCount > 5, in header order. *)
LineChoice ==
    Analysed /\ Len(csvData.data) > 0 =>
        LET varied == {i \in NumericColumns : columnAnalyses[i].uniqueCount > 5}
        IN /\ (ChartsOf("line") # {}) = (DateColumns # {} /\ varied # {})
           /\ \A l \in ChartsOf("line") :
                /\ \E d \in DateColumns :
                     (\A e \in DateColumns : d <= e) /\ Charts[l].x_column = columnAnalyses[d].name
                /\ \E i \in varied :
                     (\A j \in varied : i <= j) /\ Charts[l].y_column = columnAnalyses[i].name

\* a line whose y column comes after a numeric column of 5 values or fewer
LineChoiceWitness ==
    /\ Analysed
    /\ \E l \in ChartsOf("line") : \E i, j \in NumericColumns :
         /\ i < j
         /\ columnAnalyses[i].uniqueCount <= 5
         /\ Charts[l].y_column = columnAnalyses[j].name
         /\ columnAnalyses[i].name # columnAnalyses[j].name

-----------------------------------------------------------------------------
(* Column classification *)

\* the values of a column in the first 10 rows
FirstTen(column) ==
    {Get(csvData.data[r], column) : r \in {q \in 1..Len(csvData.data) : q <= 10}}

\* the distinct sampled values: those of the first 10 rows that are not '', null or undefined
SampledValues(column) == FirstTen(column) \ {EmptyStr, Null, Undefined}

DateLike(v) ==
    /\ ~(v.ty = "number" /\ NumberStringLength(v.num) < 6)
    /\ DateIsValid(v, lenientDate)

NumberLike(v) ==
    \/ v.ty = "number"
    \/ v.ty = "string" /\ (v.str = <<>> \/ ~StringIsNaN(v.str))

Tabulated == Analysed /\ Len(csvData.data) > 0

(* C8: a column is 'date' iff its sample is non-empty, every sampled value is
   date-like and the sample has more than one distinct value; otherwise
   'numeric' iff every sampled value is a number or a string that is empty or
   converts to a number, and the sample has more than one distinct value;
   otherwise 'categorical'. *)
ColumnTypeDecision ==
    Tabulated =>
        \A i \in Cols :
            LET S == SampledValues(columnAnalyses[i].name)
                isDate == S # {} /\ (\A v \in S : DateLike(v)) /\ Cardinality(S) > 1
                isNumeric == (\A v \in S : NumberLike(v)) /\ Cardinality(S) > 1
            IN columnAnalyses[i].type =
                 IF isDate THEN "date" ELSE IF isNumeric THEN "numeric" ELSE "categorical"

\* a column of numbers with long decimal strings, which passes both tests and is a date
ColumnTypeDecisionWitness ==
    /\ Tabulated
    /\ \E i \in Cols :
         /\ columnAnalyses[i].type = "date"
         /\ \A v \in SampledValues(columnAnalyses[i].name) : v.ty = "number"
    /\ \E i \in Cols : columnAnalyses[i].type = "numeric"

(* C9: every column of the table gets one of the three types, and a column
   whose sample is empty (all cells empty, or the key missing) is
   'categorical'. *)
ColumnTypeTotal ==
    Tabulated =>
        /\ Len(columnAnalyses) = Len(csvData.headers)
        /\ \A i \in Cols :
             /\ columnAnalyses[i].name = csvData.headers[i]
             /\ columnAnalyses[i].type \in {"numeric", "date", "categorical"}
             /\ SampledValues(columnAnalyses[i].name) = {} => columnAnalyses[i].type = "categorical"

\* a column whose key is missing from the first 10 rows, next to a column of mixed cells
ColumnTypeTotalWitness ==
    /\ Tabulated /\ Len(csvData.data) > 10
    /\ \E i \in Cols : \A r \in 1..10 : columnAnalyses[i].name \notin DOMAIN csvData.data[r]
    /\ \E i \in Cols : \E v, w \in SampledValues(columnAnalyses[i].name) :
         v.ty = "number" /\ w.ty = "string"

(* C10: a column's type is the type of its first 10 rows alone, empty cells
   among them being dropped and not replaced by later rows (a column empty in
   the first 10 rows is 'categorical'), while uniqueCount counts the distinct
   values of all rows. *)
TypeFromFirstTenRows ==
    Tabulated =>
        LET firstRows == SubSeq(csvData.data, 1, IF Len(csvData.data) < 10 THEN Len(csvData.data) ELSE 10)
        IN \A i \in Cols :
             LET h == columnAnalyses[i].name
             IN /\ columnAnalyses[i].type = getColumnType(firstRows, h, lenientDate)
                /\ FirstTen(h) \subseteq {EmptyStr, Null, Undefined} => columnAnalyses[i].type = "categorical"
                /\ columnAnalyses[i].uniqueCount =
                     Cardinality({Get(csvData.data[r], h) : r \in 1..Len(csvData.data)})

\* a column empty in rows 1..10 that holds two different numbers from row 11 on
TypeFromFirstTenRowsWitness ==
    /\ Tabulated /\ Len(csvData.data) > 10
    /\ \E i \in Cols :
         LET h == columnAnalyses[i].name
         IN /\ FirstTen(h) = {EmptyStr}
            /\ columnAnalyses[i].uniqueCount = 3
            /\ columnAnalyses[i].type = "categorical"
            /\ \A r \in 11..Len(csvData.data) : Get(csvData.data[r], h).ty = "number"

-----------------------------------------------------------------------------
(* C11: a column whose values are all identical, whatever they are (number,
   date string or text), is classified 'categorical'. *)
SingleValueIsCategorical ==
    Tabulated =>
        \A i \in Cols : columnAnalyses[i].uniqueCount = 1 => columnAnalyses[i].type = "categorical"

\* a table of many rows with a column holding one date string and a column holding one number
SingleValueIsCategoricalWitness ==
    /\ Tabulated /\ Len(csvData.data) > 1
    /\ \E i, j \in Cols :
         /\ columnAnalyses[i].uniqueCount = 1 /\ columnAnalyses[j].uniqueCount = 1
         /\ IsISODate(Get(csvData.data[1], columnAnalyses[i].name).str)
         /\ Get(csvData.data[1], columnAnalyses[j].name).ty = "number"

(* C12: getAnalysis on a table of zero rows says the dataset is empty and
   returns no insights and no chart suggestions, whatever the headers. *)
EmptyTableResult ==
    Analysed /\ Len(csvData.data) = 0 =>
        /\ analysis.summary = <<"empty", csvData.fileName, 0, 0>>
        /\ analysis.insights = <<>>
        /\ analysis.chartSuggestions = <<>>

\* a table with headers and no rows has been analysed
EmptyTableResultWitness == Analysed /\ Len(csvData.data) = 0 /\ Len(csvData.headers) >= 2

\* a cell that is numeric after coercion: a number, or a non-blank string that Number converts
CoercesToNumber(v) ==
    \/ v.ty = "number"
    \/ v.ty = "string" /\ Trim(v.str) # <<>> /\ ~StringIsNaN(v.str)

CoercedValue(v) == IF v.ty = "number" THEN v.num ELSE StringToNumber(v.str)

RECURSIVE SumCoerced(_)
SumCoerced(cells) == IF cells = <<>> THEN 0 ELSE CoercedValue(Head(cells)) + SumCoerced(Tail(cells))

(* C13: when a numeric column exists, the mean insight is over the first
   numeric column and averages exactly its cells that are numeric after
   coercion, number cells and numeric-looking strings alike. *)
MeanCoercesNumericStrings ==
    Tabulated /\ NumericColumns # {} =>
        LET first == CHOOSE i \in NumericColumns : \A j \in NumericColumns : i <= j
            h == columnAnalyses[first].name
            cells == SelectSeq([r \in 1..Len(csvData.data) |-> Get(csvData.data[r], h)], CoercesToNumber)
        IN cells # <<>> =>
             \E k \in 1..Len(analysis.insights) :
                 /\ analysis.insights[k].kind = "average"
                 /\ analysis.insights[k].column = h
                 /\ analysis.insights[k].a = (2 * SumCoerced(cells) + Len(cells)) \div (2 * Len(cells))

-----------------------------------------------------------------------------
(* Dashboard filters *)

RECURSIVE RowsWhere(_, _, _)
\* the rows data[r], r from `from` on and r in S, in file order
RowsWhere(data, S, from) ==
    IF from > Len(data) THEN <<>>
    ELSE (IF from \in S THEN <<data[from]>> ELSE <<>>) \o RowsWhere(data, S, from + 1)

ShownData == selectedData[1].data

SureRows == {r \in 1..Len(ShownData) :
                \/ GreaterOrEqual(Get(ShownData[r], Prob_HomeWin), sureWinThreshold)
                \/ GreaterOrEqual(Get(ShownData[r], Prob_AwayWin), sureWinThreshold)}

DrawRows == {r \in 1..Len(ShownData) : GreaterOrEqual(Get(ShownData[r], Prob_Draw), drawThreshold)}

HasAllProbHeaders ==
    {Prob_HomeWin, Prob_Draw, Prob_AwayWin} \subseteq Range(selectedData[1].headers)

(* C16: for a selected table with the three probability columns, sureWins is
   exactly the rows, in file order, with Prob_HomeWin >= T1 or Prob_AwayWin >= T1
   and draws exactly the rows with Prob_Draw >= T2; on the Dashboard, a step
   that changes only T2 leaves sureWins as it was and a step that changes only
   T1 leaves draws as it was. *)
OutcomeFilters ==
    /\ [](DashboardShown /\ selectedData # <<>> /\ HasAllProbHeaders =>
            /\ sureWins = RowsWhere(ShownData, SureRows, 1)
            /\ draws = RowsWhere(ShownData, DrawRows, 1))
    /\ [][DashboardShown /\ DashboardShown' =>
            /\ drawThreshold' # drawThreshold /\ sureWinThreshold' = sureWinThreshold => sureWins' = sureWins
            /\ sureWinThreshold' # sureWinThreshold /\ drawThreshold' = drawThreshold => draws' = draws]_vars

\* the sure-win slider was moved, and the table shows a row in both lists, a row in
\* sureWins only, a row in draws only and a row in neither
OutcomeFiltersWitness ==
    /\ DashboardShown /\ selectedData # <<>> /\ HasAllProbHeaders
    /\ sureWinThreshold # DefaultSureWinThreshold
    /\ \E r \in 1..Len(ShownData) : ShownData[r] \in Range(sureWins) /\ ShownData[r] \in Range(draws)
    /\ \E r \in 1..Len(ShownData) : ShownData[r] \in Range(sureWins) /\ ShownData[r] \notin Range(draws)
    /\ \E r \in 1..Len(ShownData) : ShownData[r] \notin Range(sureWins) /\ ShownData[r] \in Range(draws)
    /\ \E r \in 1..Len(ShownData) : ShownData[r] \notin Range(sureWins) /\ ShownData[r] \notin Range(draws)

(* C17: when the selected dataset lacks one of Prob_HomeWin, Prob_Draw and
   Prob_AwayWin, sureWins and draws are empty and the 'filters not available'
   message takes the place of the filter controls and results. *)
FiltersNeedAllHeaders ==
    DashboardShown /\ selectedData # <<>> /\ ~HasAllProbHeaders =>
        /\ sureWins = <<>>
        /\ draws = <<>>
        /\ FilterPanel = "Match Outcome Filters Not Available"

\* the selected table has Prob_HomeWin and Prob_Draw but no Prob_AwayWin, and a
\* row that would pass both filters
FiltersNeedAllHeadersWitness ==
    /\ DashboardShown /\ selectedData # <<>>
    /\ {Prob_HomeWin, Prob_Draw} \subseteq Range(selectedData[1].headers)
    /\ Prob_AwayWin \notin Range(selectedData[1].headers)
    /\ \E r \in 1..Len(ShownData) :
         /\ GreaterOrEqual(Get(ShownData[r], Prob_HomeWin), sureWinThreshold)
         /\ GreaterOrEqual(Get(ShownData[r], Prob_Draw), drawThreshold)

(* C20: when a multi-file upload ends, every file of the batch that parses
   successfully is in datasets and has an analysis result, although another
   file of the batch failed, and the error names a file that failed. *)
FailureIsPerFile ==
    [][isLoading /\ ~isLoading' =>
         /\ \A i \in 1..Len(reads') :
               parseCSV(reads'[i].file).state = "resolved" =>
                  /\ \E k \in 1..Len(datasets') : datasets'[k] = parseCSV(reads'[i].file).value
                  /\ reads'[i].file.name \in DOMAIN analysisResults'
         /\ error' # NoError =>
               \E i \in 1..Len(reads') : reads'[i].state = "rejected" /\ error'[2] = reads'[i].file.name]_vars

-----------------------------------------------------------------------------
(* Bet criteria and slips *)

\* criterion k selects candidate r: its groups, its probability floor and its Lambda_Home window all admit the row
Selects(k, r) ==
    LET setting == criteria[k]
        row == candidates[r]
        tolerance == IF setting.lambdaTolerance = <<>> THEN 5 ELSE setting.lambdaTolerance[1]
    IN /\ setting.groups = <<>> \/ \E g \in 1..Len(setting.groups) : setting.groups[g] = row.Predicted
       /\ setting.probMin = <<>> \/ row.Prob_Max >= setting.probMin[1]
       /\ \/ setting.lambdaHomeTarget = <<>>
          \/ /\ row.Lambda_Home - setting.lambdaHomeTarget[1] <= tolerance
             /\ setting.lambdaHomeTarget[1] - row.Lambda_Home <= tolerance

Unconditional(setting) ==
    setting.groups = <<>> /\ setting.probMin = <<>> /\ setting.lambdaHomeTarget = <<>>

(* C14: rowMatchesSetting(row, rule) is true exactly when the rule's groups are
   empty or contain row.Predicted, its probMin is unset or at most
   row.Prob_Max, and its lambdaHomeTarget is unset or within the tolerance
   (0.05 when lambdaTolerance is unset) of row.Lambda_Home; so a rule without
   groups, probMin and target matches every row, and the rule {groups ['1-1'],
   target 1.5, tolerance 0.05} matches a '1-1' row of Lambda_Home 1.52 and not
   one of 1.6. *)
RuleMatching ==
    matches # <<>> =>
        \A k \in 1..Len(criteria) : \A r \in 1..Len(candidates) :
            /\ matches[1][k][r] = Selects(k, r)
            /\ Unconditional(criteria[k]) => matches[1][k][r]
            /\ /\ criteria[k].groups = <<Score11>> /\ criteria[k].probMin = <<>>
               /\ criteria[k].lambdaHomeTarget = <<150>> /\ criteria[k].lambdaTolerance = <<5>>
               /\ candidates[r].Predicted = Score11
               => /\ candidates[r].Lambda_Home = 152 => matches[1][k][r]
                  /\ candidates[r].Lambda_Home = 160 => ~matches[1][k][r]

\* evaluated: a rule with a target and no tolerance against Lambda_Home 1.52
\* (matched) and 1.6 (not matched), and a rule without conditions
RuleMatchingWitness ==
    /\ matches # <<>> /\ Len(criteria) = 2
    /\ criteria[1].lambdaHomeTarget = <<150>> /\ criteria[1].lambdaTolerance = <<>>
    /\ Unconditional(criteria[2])
    /\ \E r \in 1..Len(candidates) : candidates[r].Lambda_Home = 152 /\ matches[1][1][r]
    /\ \E r \in 1..Len(candidates) : candidates[r].Lambda_Home = 160 /\ ~matches[1][1][r] /\ matches[1][2][r]

Selected(k) == {r \in 1..Len(candidates) : rowMatchesSetting(candidates[r], criteria[k])}

\* the first n members of a set of row numbers
FirstOf(S, n) == {r \in S : Cardinality({q \in S : q < r}) < n}

(* C15: the groups of a slip are the rules that match at least one filtered
   row, in rule order; a group's total is the number of filtered rows its rule
   matches and its selections are the first min(5, total) of them, in row
   order. *)
SlipGroups ==
    slip # <<>> =>
        LET groups == slip[1]
            kept == {k \in 1..Len(criteria) : Selected(k) # {}}
        IN /\ Len(groups) = Cardinality(kept)
           /\ \A k \in kept :
                LET g == Cardinality({j \in kept : j <= k})
                IN /\ groups[g].setting = criteria[k]
                   /\ groups[g].total = Cardinality(Selected(k))
                   /\ groups[g].selections = RowsWhere(candidates, FirstOf(Selected(k), 5), 1)

\* a slip of two rules over at least six rows: the first rule matches none and
\* is left out, the second matches more than five and lists five
SlipGroupsWitness ==
    /\ slip # <<>> /\ Len(criteria) = 2 /\ Len(slip[1]) = 1
    /\ slip[1][1].setting = criteria[2]
    /\ slip[1][1].total > 5 /\ Len(slip[1][1].selections) = 5

-----------------------------------------------------------------------------
(* Matchup upload *)

\* parseCSV of every matchup file, by name
ParsedFiles == [name \in {file.name : file \in MatchupFiles} |-> parseCSV(MatchupFile(name))]

\* the normalized header names that resolve a logical field
ResolvingNames(column) ==
    CASE column = Team -> {<<"t", "e", "a", "m">>}
      [] column = Opponent -> {<<"o", "p", "p", "o", "n", "e", "n", "t">>}
      [] column = Predicted -> {<<"p", "r", "e", "d", "i", "c", "t", "e", "d">>}
      [] column = Prob_Max -> {<<"p", "r", "o", "b", "_", "m", "a", "x">>, <<"p", "r", "o", "b", "a", "b", "i", "l", "i", "t", "y", "_", "m", "a", "x">>}
      [] column = Lambda_Home -> {<<"l", "a", "m", "b", "d", "a", "_", "h", "o", "m", "e">>}
      [] column = Lambda_Away -> {<<"l", "a", "m", "b", "d", "a", "_", "a", "w", "a", "y">>}
      [] column = Date -> {<<"d", "a", "t", "e">>}
      [] column = Div -> {<<"d", "i", "v">>}

\* the logical fields, among S, that no header of the table resolves
Unresolved(table, S) ==
    {column \in S : ~ \E h \in 1..Len(table.headers) :
                         normalizeHeader(table.headers[h]) \in ResolvingNames(column)}

SixFields == {Team, Opponent, Predicted, Prob_Max, Lambda_Home, Lambda_Away}

EightFields == SixFields \cup {Date, Div}

(* C18: when the read of an upload ends with a parsed table, schema resolution
   fails exactly when some required field has no header whose normalized name
   is the normalized field name or alias, and the error is then 'Missing
   required column: X' for a missing field X; a table lacking only Lambda_Away
   fails naming Lambda_Away while getAnalysis of that table returns a result. *)
SchemaResolution ==
    [][\A i \in 1..Len(csvReads) :
          CSVRead(i) /\ ParsedFiles[csvReads[i]].state = "resolved" =>
             LET table == ParsedFiles[csvReads[i]].value
                 missing == Unresolved(table, EightFields)
             IN /\ missing # {} =>
                     /\ matchupError'.kind = "Missing required column"
                     /\ matchupError'.column \in missing
                /\ missing = {} =>
                     /\ matchupError' = matchupError
                     /\ Len(rows') = Len(table.data)
                     /\ fileSummary' = <<csvReads[i], Len(table.data)>>
                /\ missing = {Lambda_Away} =>
                     /\ matchupError' = MissingColumn(Lambda_Away)
                     /\ getAnalysis(table, lenientDate).summary[1] = "contains"]_vars

\* the table whose only unresolved field is Lambda_Away was read and rejected
SchemaResolutionWitness ==
    /\ matchupError = MissingColumn(Lambda_Away)
    /\ csvReads = <<>>

(* C19 as stated: a file whose headers resolve the six fields Team to
   Lambda_Away and hold no Date or no Div header is accepted: its rows are
   loaded and no error is set. *)
DateAndDivOptional ==
    [][\A i \in 1..Len(csvReads) :
          /\ CSVRead(i) /\ ParsedFiles[csvReads[i]].state = "resolved"
          /\ Unresolved(ParsedFiles[csvReads[i]].value, SixFields) = {}
          /\ Unresolved(ParsedFiles[csvReads[i]].value, {Date, Div}) # {}
          => /\ Len(rows') = Len(ParsedFiles[csvReads[i]].value.data)
             /\ fileSummary' = <<csvReads[i], Len(rows')>>
             /\ matchupError' = matchupError]_vars

(* C19: Date and Div are required like the other six fields: a file whose
   headers resolve the six fields and hold no Date header, or no Div header,
   is rejected with 'Missing required column: Date' (': Div' when only Div is
   missing), and its rows are not loaded. *)
DateAndDivRequired ==
    [][\A i \in 1..Len(csvReads) :
          /\ CSVRead(i) /\ ParsedFiles[csvReads[i]].state = "resolved"
          /\ Unresolved(ParsedFiles[csvReads[i]].value, SixFields) = {}
          /\ Unresolved(ParsedFiles[csvReads[i]].value, {Date, Div}) # {}
          => /\ matchupError' = MissingColumn(IF Date \in Unresolved(ParsedFiles[csvReads[i]].value, {Date})
                                               THEN Date ELSE Div)
             /\ rows' = rows
             /\ fileSummary' = fileSummary]_vars

\* the six-column file, or the file without Div, was read and rejected
DateAndDivRequiredWitness ==
    /\ matchupError \in {MissingColumn(Date), MissingColumn(Div)}
    /\ rows = <<>> /\ fileSummary = NoSummary /\ ~isParsing

(* C21 as stated: in the matchup view, whatever the uploads and the order in
   which their reads end, an error never coexists with loaded data: whenever
   error is set, rows is empty and fileSummary is empty. *)
ErrorExcludesData ==
    matchupError # NoMatchupError => rows = <<>> /\ fileSummary = NoSummary

(* C28 as stated: isParsing is true whenever a read is in flight, and once no
   read is in flight rows and fileSummary are those of the file selected
   last (empty when that file is rejected). *)
LastUploadWins ==
    /\ csvReads # <<>> => isParsing
    /\ csvReads = <<>> /\ csvInput # "" =>
          LET outcome == UploadOutcomes[csvInput]
          IN IF outcome.thrown
             THEN rows = <<>> /\ fileSummary = NoSummary
             ELSE rows = outcome.rows /\ fileSummary = FileSummary(csvInput, Len(outcome.rows))

\* the least p >= 1 with p * RESULTS_PER_PAGE >= count
PagesFor(count) ==
    CHOOSE p \in 1..(count + 1) :
        /\ p * RESULTS_PER_PAGE >= count
        /\ \A q \in 1..(p - 1) : q * RESULTS_PER_PAGE < count

(* C29: after every upload, read, filter change and page step, resultsPage
   lies between 1 and totalPages = max(1, ceil(|filteredRows| / 35)), and the
   page shown holds at most 35 rows: the filtered rows from index
   (resultsPage - 1) * 35 on, in order. *)
PageInRange ==
    LET total == PagesFor(Len(filteredRows))
        start == (resultsPage - 1) * RESULTS_PER_PAGE
        rest == Len(filteredRows) - start
        size == IF rest < RESULTS_PER_PAGE THEN rest ELSE RESULTS_PER_PAGE
    IN /\ 1 <= resultsPage /\ resultsPage <= total
       /\ totalPages = total
       /\ Len(paginatedRows) = (IF size < 0 THEN 0 ELSE size)
       /\ \A k \in 1..Len(paginatedRows) : paginatedRows[k] = filteredRows[start + k]

\* the last of two pages of a group of a table that has three pages unfiltered
PageInRangeWitness ==
    /\ resultsPage = 2 /\ totalPages = 2
    /\ selectedPrediction # All
    /\ TotalPages(Len(rows)) = 3
    /\ Len(paginatedRows) = 1

(* C30 as stated: with the probability filter at its minimum, every member
   of predictionGroups chosen in the selector leaves at least one row in
   filteredRows. *)
GroupOptionsSelectRows ==
    /\ rows # <<>>
    /\ probFilter = ProbStatsMin(rows)
    /\ selectedPrediction \in Range(predictionGroups)
    => filteredRows # <<>>

(* C22 as stated, for handleGoToLanding: the landing page is entered only by
   handleGoToLanding and offers no file selection, so while it is shown
   datasets and analysisResults are empty and error is null, also after a
   read that was started before the reset has ended. *)
ResetDiscardsTables ==
    view = "landing" => datasets = <<>> /\ analysisResults = NoResults /\ error = NoError

(* C27 as stated: on the Dashboard the analysis shown for the selected file
   is the one computed from the table shown as selected, also when two
   uploaded files have the same name. *)
ShownAnalysisIsOfShownData ==
    DashboardShown /\ selectedData # <<>> /\ selectedFile \in DOMAIN analysisResults
    => analysisResults[selectedFile] = getAnalysis(selectedData[1], lenientDate)

\* the probability a row holds under a header, with 0 for a cell that is not a number
ProbabilityOrZero(row, header) ==
    IF Get(row, header).ty = "number" THEN Get(row, header).num ELSE 0

(* C23 as stated, for the outcome filter: a probability cell that is empty or
   not numeric counts as 0, so the sure-win and draw lists of the Dashboard
   are the rows that pass the thresholds with 0 in the place of such a
   cell. *)
NeutralDefaults ==
    DashboardShown /\ hasRequiredHeaders =>
       LET Sure(row) == \/ ProbabilityOrZero(row, Prob_HomeWin) >= sureWinThreshold
                        \/ ProbabilityOrZero(row, Prob_AwayWin) >= sureWinThreshold
           Draw(row) == ProbabilityOrZero(row, Prob_Draw) >= drawThreshold
       IN /\ sureWins = SelectSeq(ShownData, Sure)
          /\ draws = SelectSeq(ShownData, Draw)

\* the number of lines of a text: one more than its line feeds
LineCount(text) == Cardinality({k \in 1..Len(text) : text[k] = "\n"}) + 1

(* C24: a settled parseCSV promise is rejected exactly when the file is
   unreadable, its text is empty, or its trimmed text has fewer than 2
   lines, and the message then holds a reason and the file name; otherwise it
   is resolved with the file name, the trimmed fields of line 1 as headers and
   one row per following line, in file order. *)
ParseContract ==
    \A i \in 1..Len(reads) :
        reads[i].state # "pending" =>
           LET file == reads[i].file
               trimmed == Trim(file.text)
               fatal == ~file.readable \/ file.text = <<>> \/ LineCount(trimmed) < 2
               lines == SplitLines(trimmed)
               table == reads[i].value
           IN /\ reads[i].state = "rejected" <=> fatal
              /\ fatal => /\ Len(reads[i].reason) >= 2
                          /\ reads[i].reason[1] # ""
                          /\ reads[i].reason[2] = file.name
              /\ ~fatal => /\ table.fileName = file.name
                           /\ Len(table.headers) = Len(Split(lines[1], ","))
                           /\ \A h \in 1..Len(table.headers) :
                                 table.headers[h] = Trim(Split(lines[1], ",")[h])
                           /\ Len(table.data) = LineCount(trimmed) - 1
                           /\ \A r \in 1..Len(table.data) :
                                 table.data[r] = ParseRow(table.headers, lines[r + 1])

\* a text of three lines was read: its second data row differs from its first
ParseContractWitness ==
    /\ Len(reads) = 1 /\ reads[1].state = "resolved"
    /\ Len(reads[1].value.data) = 2
    /\ reads[1].value.data[1] # reads[1].value.data[2]

(* C25 as stated: a column whose sampled values are all numbers is never
   classified 'date'. *)
NumbersNeverDate ==
    Tabulated =>
        \A i \in Cols :
            LET S == SampledValues(columnAnalyses[i].name)
            IN S # {} /\ (\A v \in S : v.ty = "number") => columnAnalyses[i].type # "date"

(* C26: every column classified numeric or date has uniqueCount >= 2, and a
   non-empty table with at least 2 numeric columns always gets a scatter
   suggestion. *)
TypedColumnsVary ==
    Tabulated =>
        /\ \A i \in NumericColumns \cup DateColumns : columnAnalyses[i].uniqueCount >= 2
        /\ Cardinality(NumericColumns) >= 2 => ChartsOf("scatter") # {}

\* a table with a date column and numeric columns, one of them of two values, and its scatter
TypedColumnsVaryWitness ==
    /\ Tabulated /\ DateColumns # {}
    /\ Cardinality(NumericColumns) >= 2
    /\ \E i \in NumericColumns : columnAnalyses[i].uniqueCount = 2
    /\ ChartsOf("scatter") # {}

====
